---- MODULE Spec2Model ----
(***************************************************************************)
(* PumpSwap demo client: the constant-product quote (CalcMinAmountOutByAmm *)
(* in the swap command, CalculateMinAmountOut in the swapper package), the *)
(* two swap workflows that consume it, and the instruction classifier of   *)
(* the transaction decoder.                                                *)
(*                                                                         *)
(* The quote works on shopspring/decimal values (a big.Int coefficient and *)
(* a base-10 exponent).  uint64 products do not fit the model checker's    *)
(* integers, so big.Int is modelled by digit sequences below.              *)
(***************************************************************************)
EXTENDS Integers, Sequences, FiniteSets, TLC

(***************************************************************************)
(* math/big naturals: little-endian sequences of limbs in base 10000       *)
(* without a most-significant zero limb; zero is the empty sequence.  The  *)
(* operators are written limb-parallel (carry look-ahead) so that only the *)
(* long division recurses.                                                 *)
(***************************************************************************)
\* a local variable: F applied to the value v, computed once
Let(v, F(_)) == F(v)

Limb(a, i) == IF i >= 1 /\ i <= Len(a) THEN a[i] ELSE 0

\* the index of the highest nonzero limb, 0 for zero
NatTop(a) ==
  IF \A i \in 1..Len(a) : a[i] = 0 THEN 0
  ELSE CHOOSE m \in 1..Len(a) : a[m] # 0 /\ \A j \in (m + 1)..Len(a) : a[j] = 0

NatNorm(a) == SubSeq(a, 1, NatTop(a))

\* a machine integer 0 <= n < 2^31
NatOf(n) == NatNorm(<<n % 10000, (n \div 10000) % 10000, n \div 100000000>>)

\* one pass moving each limb's overflow to the next limb
NatCarryStep(v) ==
  SubSeq([i \in 1..(Len(v) + 1) |-> (Limb(v, i) % 10000) + (Limb(v, i - 1) \div 10000)],
         1, Len(v) + 1)

\* limbs at most 2*10000-2: limb i receives a carry iff a lower limb overflows
\* and every limb in between is 9999
NatCarryInto(s, i) ==
  \E j \in 1..(i - 1) : s[j] >= 10000 /\ \A k \in (j + 1)..(i - 1) : s[k] = 9999

NatCarryLast(s) ==
  NatNorm(SubSeq([i \in 1..(Len(s) + 1) |->
                   (Limb(s, i) + (IF NatCarryInto(s, i) THEN 1 ELSE 0)) % 10000],
                 1, Len(s) + 1))

\* the natural with limb vector v (entries below 2^31)
NatCarry(v) == NatCarryLast(NatCarryStep(NatCarryStep(NatCarryStep(v))))

MaxLen(a, b) == IF Len(a) >= Len(b) THEN Len(a) ELSE Len(b)

NatAdd(a, b) ==
  NatCarryLast(SubSeq([i \in 1..MaxLen(a, b) |-> Limb(a, i) + Limb(b, i)],
                      1, MaxLen(a, b)))

\* limb i lends iff a lower limb difference is negative and every one in
\* between is zero
NatBorrowFrom(a, b, i) ==
  \E j \in 1..(i - 1) :
    a[j] < Limb(b, j) /\ \A k \in (j + 1)..(i - 1) : a[k] = Limb(b, k)

\* a - b for a >= b
NatSub(a, b) ==
  NatNorm(SubSeq([i \in 1..Len(a) |->
                   (a[i] - Limb(b, i) - (IF NatBorrowFrom(a, b, i) THEN 1 ELSE 0)
                    + 10000) % 10000],
                 1, Len(a)))

NatCmp(a, b) ==
  IF Len(a) < Len(b) THEN -1
  ELSE IF Len(a) > Len(b) THEN 1
  ELSE IF a = b THEN 0
  ELSE IF \E m \in 1..Len(a) : a[m] < b[m] /\ \A j \in (m + 1)..Len(a) : a[j] = b[j]
       THEN -1
  ELSE 1

\* a * m for 0 <= m < 200000
NatMulSmall(a, m) ==
  IF m = 0 THEN <<>>
  ELSE NatCarry(SubSeq([i \in 1..Len(a) |-> a[i] * m], 1, Len(a)))

Pow10(r) == IF r = 0 THEN 1 ELSE IF r = 1 THEN 10 ELSE IF r = 2 THEN 100 ELSE 1000

\* a * 10^n
NatShl10(a, n) ==
  IF a = <<>> THEN <<>>
  ELSE [i \in 1..(n \div 4) |-> 0] \o NatMulSmall(a, Pow10(n % 4))

\* a \div 10^n
NatShr10(a, n) ==
  IF Len(a) <= n \div 4 THEN <<>>
  ELSE NatNorm(SubSeq([i \in 1..(Len(a) - n \div 4) |->
                        (a[i + n \div 4] \div Pow10(n % 4))
                        + (Limb(a, i + n \div 4 + 1) % Pow10(n % 4))
                          * (10000 \div Pow10(n % 4))],
                      1, Len(a) - n \div 4))

\* column k of the schoolbook product: the sum of a[i] * b[k+1-i] over the
\* limbs lo..hi of a
RECURSIVE NatMulCol(_, _, _, _, _)
NatMulCol(a, b, k, lo, hi) ==
  IF lo > hi THEN 0
  ELSE IF lo = hi THEN a[lo] * Limb(b, k + 1 - lo)
  ELSE NatMulCol(a, b, k, lo, (lo + hi) \div 2)
       + NatMulCol(a, b, k, (lo + hi) \div 2 + 1, hi)

NatMul(a, b) ==
  IF a = <<>> \/ b = <<>> THEN <<>>
  ELSE NatCarry(SubSeq([k \in 1..(Len(a) + Len(b)) |-> NatMulCol(a, b, k, 1, Len(a))],
                       1, Len(a) + Len(b)))

\* one step of the long division by a divisor b whose top limb is at least
\* 5000: the next quotient limb is the two-limb estimate or up to two less
NatDivEstimate(r1, b) ==
  IF (Limb(r1, Len(b) + 1) * 10000 + Limb(r1, Len(b))) \div b[Len(b)] > 9999 THEN 9999
  ELSE (Limb(r1, Len(b) + 1) * 10000 + Limb(r1, Len(b))) \div b[Len(b)]

NatDivDigit(r1, b) ==
  CHOOSE y \in {NatDivEstimate(r1, b) - k : k \in 0..2} :
    /\ y >= 0
    /\ NatCmp(NatMulSmall(b, y), r1) <= 0
    /\ NatCmp(NatSub(r1, NatMulSmall(b, y)), b) < 0

NatDivTake(r1, b, q, c) == [r |-> NatSub(r1, NatMulSmall(b, c)), q |-> <<c>> \o q]

NatDivStep(r1, b, q) == NatDivTake(r1, b, q, NatDivDigit(r1, b))

\* the division of a by b continued from s, the remainder and the quotient
\* limbs of the limbs of a taken so far; Len(a) - Len(b) + 1 limbs are taken
RECURSIVE NatDivFrom(_, _, _)
NatDivFrom(a, b, s) ==
  IF Len(s.q) = Len(a) - Len(b) + 1 THEN NatNorm(s.q)
  ELSE NatDivFrom(a, b, NatDivStep(NatNorm(<<a[Len(a) - Len(b) + 1 - Len(s.q)]>> \o s.r),
                                   b, s.q))

NatDivScaled(a1, b1) ==
  NatDivFrom(a1, b1, [r |-> SubSeq(a1, Len(a1) - Len(b1) + 2, Len(a1)), q |-> <<>>])

NatQuoRemOf(a, b, qq) == [q |-> qq, r |-> NatSub(a, NatMul(qq, b))]

\* quotient and remainder of a by b, b # 0; both are scaled first so that the
\* divisor's top limb is at least 5000, and the division starts below the
\* dividend's Len(b)-1 top limbs
NatQuoRem(a, b) ==
  IF NatCmp(a, b) < 0 THEN [q |-> <<>>, r |-> a]
  ELSE NatQuoRemOf(a, b, NatDivScaled(NatMulSmall(a, 10000 \div (b[Len(b)] + 1)),
                                      NatMulSmall(b, 10000 \div (b[Len(b)] + 1))))

(***************************************************************************)
(* math/big.Int: sign and magnitude.                                       *)
(***************************************************************************)
MkInt(neg, mag) == [neg |-> neg /\ mag # <<>>, mag |-> mag]

IntSign(x) == IF x.mag = <<>> THEN 0 ELSE IF x.neg THEN -1 ELSE 1

IntNeg(x) == MkInt(~x.neg, x.mag)

IntAdd(x, y) ==
  IF x.neg = y.neg THEN MkInt(x.neg, NatAdd(x.mag, y.mag))
  ELSE IF NatCmp(x.mag, y.mag) >= 0 THEN MkInt(x.neg, NatSub(x.mag, y.mag))
  ELSE MkInt(y.neg, NatSub(y.mag, x.mag))

IntSub(x, y) == IntAdd(x, IntNeg(y))

IntMul(x, y) == MkInt(x.neg # y.neg, NatMul(x.mag, y.mag))

IntCmp(x, y) == IntSign(IntSub(x, y))

\* big.Int.QuoRem: truncated division, the remainder has the dividend's sign
IntQuoRemOf(x, y, d) == [q |-> MkInt(x.neg # y.neg, d.q), r |-> MkInt(x.neg, d.r)]

IntQuoRem(x, y) == IntQuoRemOf(x, y, NatQuoRem(x.mag, y.mag))

IntShl10(x, n) == MkInt(x.neg, NatShl10(x.mag, n))

IntAbs(x) == MkInt(FALSE, x.mag)

\* 2^63 = 9223372036854775808 and 2^64 = 18446744073709551616
Two63 == <<5808, 5477, 368, 3372, 922>>
Two64 == <<1616, 955, 737, 6744, 1844>>

\* big.Int.Int64: the low 64 bits of the magnitude as an int64, negated (with
\* wrap-around) for a negative value
Int64Of(low) ==
  IF NatCmp(low, Two63) >= 0 THEN MkInt(TRUE, NatSub(Two64, low)) ELSE MkInt(FALSE, low)

Int64Signed(x, v) ==
  IF ~x.neg THEN v
  ELSE IF v.neg /\ v.mag = Two63 THEN v
  ELSE IntNeg(v)

Int64(x) == Int64Signed(x, Int64Of(NatQuoRem(x.mag, Two64).r))

\* the Go conversion uint64(v) of an int64 v
Uint64(v) == IF v.neg THEN NatSub(Two64, v.mag) ELSE v.mag

(***************************************************************************)
(* shopspring/decimal: value * 10^exp.                                     *)
(***************************************************************************)
DivisionPrecision == 16

New(value, exp) == [value |-> value, exp |-> exp]

NewFromUint64(n) == New(MkInt(FALSE, n), 0)

Zero == New(MkInt(FALSE, <<>>), 1)

\* truncates toward zero when the exponent grows
rescale(d, exp) ==
  IF d.exp = exp THEN d
  ELSE IF exp > d.exp
  THEN New(MkInt(d.value.neg, NatShr10(d.value.mag, exp - d.exp)), exp)
  ELSE New(IntShl10(d.value, d.exp - exp), exp)

MinExp(d, d2) == IF d.exp < d2.exp THEN d.exp ELSE d2.exp

Add(d, d2) ==
  New(IntAdd(rescale(d, MinExp(d, d2)).value, rescale(d2, MinExp(d, d2)).value),
      MinExp(d, d2))

Sub(d, d2) ==
  New(IntSub(rescale(d, MinExp(d, d2)).value, rescale(d2, MinExp(d, d2)).value),
      MinExp(d, d2))

Mul(d, d2) == New(IntMul(d.value, d2.value), d.exp + d2.exp)

Sign(d) == IntSign(d.value)

IsPositive(d) == Sign(d) = 1

Cmp(d, d2) ==
  IntCmp(rescale(d, MinExp(d, d2)).value, rescale(d2, MinExp(d, d2)).value)

LessThan(d, d2) == Cmp(d, d2) < 0

LessThanOrEqual(d, d2) == Cmp(d, d2) <= 0

\* quotient truncated at 10^-precision and the remainder; d2 # 0
QuoRemOf(qr, scale, scalerest) == [q |-> New(qr.q, scale), r |-> New(qr.r, scalerest)]

QuoRemScaled(d, d2, scale, e) ==
  IF e < 0
  THEN QuoRemOf(IntQuoRem(d.value, IntShl10(d2.value, -e)), scale, d.exp)
  ELSE QuoRemOf(IntQuoRem(IntShl10(d.value, e), d2.value), scale, scale + d2.exp)

QuoRem(d, d2, precision) == QuoRemScaled(d, d2, -precision, d.exp - d2.exp + precision)

\* rounds half away from zero at 10^-precision
DivRoundOf(d, d2, precision, qr) ==
  IF Cmp(New(IntAdd(IntAbs(qr.r.value), IntAbs(qr.r.value)), qr.r.exp + precision),
         New(IntAbs(d2.value), d2.exp)) < 0
  THEN qr.q
  ELSE IF Sign(d) * Sign(d2) < 0 THEN Sub(qr.q, New(MkInt(FALSE, <<1>>), -precision))
  ELSE Add(qr.q, New(MkInt(FALSE, <<1>>), -precision))

DivRound(d, d2, precision) == DivRoundOf(d, d2, precision, QuoRem(d, d2, precision))

Div(d, d2) == DivRound(d, d2, DivisionPrecision)

\* the integer part as an int64
IntPart(d) == Int64(rescale(d, 0).value)

(***************************************************************************)
(* The quote, as the swap command computes it (CalcMinAmountOutByAmm) and  *)
(* as the swapper package computes it (CalculateMinAmountOut).  A result   *)
(* records the returned triple and the intermediate decimals; panicked     *)
(* marks the run-time panic of a division by a zero decimal.               *)
(***************************************************************************)
\* the denominator of a rate in basis points
BasisPointDenominator == NewFromUint64(NatOf(10000))

FeeRateDenominatorValue == NewFromUint64(NatOf(1000000))
AllBpDecimal == NewFromUint64(NatOf(10000))

Panicked ==
  [panicked |-> TRUE, err |-> FALSE, minAmountOut |-> <<>>, exactAmountOut |-> <<>>,
   fee |-> Zero, amountInNet |-> Zero, amountOut |-> Zero, minOut |-> Zero]

CalcMinAmountOutBySwap(slipPageBP, amountIn, totalInTokenAmount, totalOutTokenAmount, feeRate) ==
  Let(Div(NewFromUint64(feeRate), FeeRateDenominatorValue), LAMBDA feeRateDecimal :
  Let(Mul(NewFromUint64(amountIn), feeRateDecimal), LAMBDA feeDecimal :
  Let(Sub(NewFromUint64(amountIn), feeDecimal), LAMBDA amountDecimal :
  Let(NewFromUint64(totalInTokenAmount), LAMBDA totalInTokenAmountDecimal :
  Let(NewFromUint64(totalOutTokenAmount), LAMBDA totalOutTokenAmountDecimal :
  Let(Mul(totalInTokenAmountDecimal, totalOutTokenAmountDecimal), LAMBDA productDecimal :
  Let(Add(totalInTokenAmountDecimal, amountDecimal), LAMBDA divisor :
    IF Sign(divisor) = 0 THEN Panicked
    ELSE
      Let(Sub(totalOutTokenAmountDecimal, Div(productDecimal, divisor)), LAMBDA outDecimal :
      Let(Mul(outDecimal, Div(Sub(AllBpDecimal, NewFromUint64(slipPageBP)), AllBpDecimal)),
          LAMBDA minOut :
        IF ~IsPositive(minOut) \/ ~IsPositive(outDecimal)
        THEN [panicked |-> FALSE, err |-> FALSE,
              minAmountOut |-> <<>>, exactAmountOut |-> <<>>,
              fee |-> feeDecimal, amountInNet |-> amountDecimal,
              amountOut |-> outDecimal, minOut |-> minOut]
        ELSE [panicked |-> FALSE, err |-> FALSE,
              minAmountOut |-> Uint64(IntPart(minOut)),
              exactAmountOut |-> Uint64(IntPart(outDecimal)),
              fee |-> feeDecimal, amountInNet |-> amountDecimal,
              amountOut |-> outDecimal, minOut |-> minOut])))))))))

\* the quote with the token reserve as input reserve in both directions
CalcMinAmountOutOfTokenSide(slipPageBP, amountIn, isBuy, tokenAmount, baseAmount, feeRate) ==
  CalcMinAmountOutBySwap(slipPageBP, amountIn, tokenAmount, baseAmount, feeRate)

CalcMinAmountOutByAmm(slipPageBP, amountIn, isBuy, tokenAmount, baseAmount, feeRate) ==
  IF isBuy
  THEN CalcMinAmountOutBySwap(slipPageBP, amountIn, baseAmount, tokenAmount, feeRate)
  ELSE CalcMinAmountOutBySwap(slipPageBP, amountIn, tokenAmount, baseAmount, feeRate)

CalculateMinAmountOut(slippageBP, amountIn, isBuy, tokenAmount, baseAmount, feeRate) ==
  Let(NewFromUint64(amountIn), LAMBDA amountInDec :
  Let(NewFromUint64(tokenAmount), LAMBDA tokenAmountDec :
  Let(NewFromUint64(baseAmount), LAMBDA baseAmountDec :
  Let(Div(NewFromUint64(feeRate), NewFromUint64(NatOf(1000000))), LAMBDA feeRateDec :
  Let(Mul(amountInDec, feeRateDec), LAMBDA feeDec :
  Let(Sub(amountInDec, feeDec), LAMBDA amountInAfterFee :
  Let(IF isBuy THEN baseAmountDec ELSE tokenAmountDec, LAMBDA inReserve :
  Let(IF isBuy THEN tokenAmountDec ELSE baseAmountDec, LAMBDA outReserve :
  Let(Mul(inReserve, outReserve), LAMBDA k :
  Let(Add(inReserve, amountInAfterFee), LAMBDA newInReserve :
    IF Sign(newInReserve) = 0 THEN Panicked
    ELSE
      Let(Div(k, newInReserve), LAMBDA newOutReserve :
      Let(Sub(outReserve, newOutReserve), LAMBDA amountOut :
      Let(Div(Mul(amountOut, Sub(NewFromUint64(NatOf(10000)), NewFromUint64(slippageBP))),
              NewFromUint64(NatOf(10000))), LAMBDA minAmountOut :
        IF LessThanOrEqual(minAmountOut, Zero) \/ LessThanOrEqual(amountOut, Zero)
        THEN [panicked |-> FALSE, err |-> TRUE,
              minAmountOut |-> <<>>, exactAmountOut |-> <<>>,
              fee |-> feeDec, amountInNet |-> amountInAfterFee,
              amountOut |-> amountOut, minOut |-> minAmountOut]
        ELSE [panicked |-> FALSE, err |-> FALSE,
              minAmountOut |-> Uint64(IntPart(minAmountOut)),
              exactAmountOut |-> Uint64(IntPart(amountOut)),
              fee |-> feeDec, amountInNet |-> amountInAfterFee,
              amountOut |-> amountOut, minOut |-> minAmountOut])))))))))))))

(***************************************************************************)
(* The swap workflows: executePumpSwap of the swap command and             *)
(* ExecutePumpSwap of the swapper package.  A run goes through the steps   *)
(* setup, fetch, quote, instruction and send; the outcomes of the RPC      *)
(* calls are chosen at the step that makes them.                           *)
(***************************************************************************)
ProtocolFeeRecipients ==
  {"62qc2CNXwrYqQScmEdiZFFAnJR262PxWEuNQtxfafNgV",
   "7VtfL8fvgNfhz17qKRMjzQEXgbdpnHHHQRh54R9jP2RJ",
   "7hTckgnGnLQR6sdH7YkqFTAA7VwTfYFaZ6EhEsU3saCX",
   "9rPYyANsfQZw3DnDmKE3YCQF5E8oD89UXoHn9JFEhJUz",
   "AVmoTthdrX6tKt4nDjco2D775W2YK3sDhxPcMmzUAmTY",
   "FWsW1xNtWscwNmKv6wVsU1iTzRN6wmmk3MjxRP5tT7hz",
   "G5UZAVbAf46s7cKWoyKu8kYTip9DGTpbLZ2qa9Aq69dP"}

ValidateAnyRecipient(recipient) == recipient # ""

ValidateProtocolFeeRecipient(recipient) == recipient \in ProtocolFeeRecipients

NilInstruction == [kind |-> "nil"]

NewSwapInstructionAmountsExchanged(para) ==
  IF ~ValidateProtocolFeeRecipient(para.ProtocolFeeRecipient)
  THEN [instruction |-> NilInstruction, err |-> TRUE]
  ELSE [instruction |-> [kind |-> "Buy", BaseAmountOut |-> para.TokenAmount2,
                         MaxQuoteAmountIn |-> para.TokenAmount1,
                         ProtocolFeeRecipient |-> para.ProtocolFeeRecipient],
        err |-> FALSE]

\* amm.NewSwapInstruction: the instruction, or nil and an error
NewSwapInstruction(para) ==
  IF para.Direction \notin {"BuyDirection", "SellDirection"}
  THEN [instruction |-> NilInstruction, err |-> TRUE]
  ELSE IF ~ValidateProtocolFeeRecipient(para.ProtocolFeeRecipient)
  THEN [instruction |-> NilInstruction, err |-> TRUE]
  ELSE IF para.Direction = "BuyDirection"
  THEN [instruction |-> [kind |-> "Buy", BaseAmountOut |-> para.TokenAmount1,
                         MaxQuoteAmountIn |-> para.TokenAmount2,
                         ProtocolFeeRecipient |-> para.ProtocolFeeRecipient],
        err |-> FALSE]
  ELSE [instruction |-> [kind |-> "Sell", BaseAmountIn |-> para.TokenAmount1,
                         MinQuoteAmountOut |-> para.TokenAmount2,
                         ProtocolFeeRecipient |-> para.ProtocolFeeRecipient],
        err |-> FALSE]

\* the response of GetMultipleAccounts for the two pool accounts: an error,
\* or per account nil or its token amount (decodable or not)
NilAccount == [present |-> FALSE, decodes |-> FALSE, Amount |-> <<>>]
TokenAccount(amount) == [present |-> TRUE, decodes |-> TRUE, Amount |-> amount]
BadAccount == [present |-> TRUE, decodes |-> FALSE, Amount |-> <<>>]

GetMulTokenBalanceWithZeros(res) ==
  IF res.err THEN [amounts |-> <<>>, err |-> TRUE]
  ELSE IF \E i \in 1..Len(res.Value) : res.Value[i].present /\ ~res.Value[i].decodes
  THEN [amounts |-> <<>>, err |-> TRUE]
  ELSE [amounts |-> [i \in 1..Len(res.Value) |-> res.Value[i].Amount], err |-> FALSE]

\* GetMulTokenBalance and GetMultipleTokenBalances: the amounts of the
\* accounts that are present, in order
GetMulTokenBalance(res) ==
  IF res.err THEN [amounts |-> <<>>, err |-> TRUE]
  ELSE IF \E i \in 1..Len(res.Value) : res.Value[i].present /\ ~res.Value[i].decodes
  THEN [amounts |-> <<>>, err |-> TRUE]
  ELSE LET kept == SelectSeq(res.Value, LAMBDA acc : acc.present)
       IN  [amounts |-> [i \in 1..Len(kept) |-> kept[i].Amount], err |-> FALSE]

\* decimal.BigInt().Uint64() of d * 10^decimals: the low 64 bits of the
\* truncated magnitude
AmountInUnits(d, decimals) ==
  NatQuoRem(rescale(Mul(d, New(MkInt(FALSE, <<1>>), decimals)), 0).value.mag, Two64).r

\* uint32(slippage)
Two32 == <<7296, 9496, 42>>
Uint32(n) == NatQuoRem(n, Two32).r

\* the hardcoded quote arguments of executePumpSwap: in.Slippage,
\* in.AmountIn = "0.0001" in lamports, and the pool's fee rate
InSlippage == 10
PumpFeeRate == 2500
AmtUint64 ==
  Uint64(IntPart(Mul(New(MkInt(FALSE, <<1>>), -4), NewFromUint64(NatOf(1000000000)))))

MainFeeRecipient == "7VtfL8fvgNfhz17qKRMjzQEXgbdpnHHHQRh54R9jP2RJ"

(***************************************************************************)
(* State.  call, pc and ret are one invocation of a quote function: its    *)
(* arguments, whether it has run, and what it returned.  swap is one run   *)
(* of a swap workflow, decode one run of a transaction analyzer, cmd one   *)
(* run of a decoder command, bal one call of a batch balance reader and    *)
(* tokenCache the token infos that were looked up.                         *)
(***************************************************************************)
VARIABLES call, pc, ret, swap, decode, cmd, bal, tokenCache

vars == <<call, pc, ret, swap, decode, cmd, bal, tokenCache>>

\* bounds of the argument grid
MaxAmount == 2
MaxReserve == 2

QuoteFunctions == {"CalcMinAmountOutByAmm", "CalculateMinAmountOut"}

\* 6148914691236517206, a third of 2^64 + 2
ThirdOfTwo64 == <<7206, 3651, 6912, 8914, 614>>
\* 10^17
TenTo17 == <<0, 0, 0, 0, 10>>

GridAmounts == {NatOf(100 * n) : n \in 0..MaxAmount}
GridReserves == {NatOf(1000 * n) : n \in 0..MaxReserve}
FeeRates == {NatOf(0), NatOf(2500), NatOf(1000000), NatOf(2000000)}
Slippages == {NatOf(0), NatOf(100), NatOf(5000), NatOf(10000), NatOf(10001)}

Args(s, a, b, t, r, f) ==
  [slippageBP |-> s, amountIn |-> a, isBuy |-> b, tokenAmount |-> t, baseAmount |-> r,
   feeRate |-> f]

\* arguments outside the grid: the worked example of the pool documentation,
\* a deep pool, a fee rate above the denominator, an output above 2^64
ScenarioArgs ==
  {Args(NatOf(100), NatOf(100000), TRUE, NatOf(5000000), NatOf(1000000), NatOf(2500)),
   Args(NatOf(100), NatOf(100000), FALSE, NatOf(1000000), NatOf(5000000), NatOf(2500)),
   Args(NatOf(0), NatOf(1), TRUE, TenTo17, TenTo17, NatOf(0)),
   Args(NatOf(100), NatOf(1), TRUE, NatOf(1000), NatOf(1000), NatOf(2500)),
   Args(NatOf(0), NatOf(10), TRUE, NatOf(5), NatOf(1), NatOf(1000000)),
   Args(NatOf(0), NatOf(10), TRUE, NatOf(5), NatOf(1), NatOf(2000000)),
   Args(NatOf(0), NatOf(3), TRUE, ThirdOfTwo64, NatOf(1), NatOf(1500000)),
   Args(NatOf(5000), NatOf(3), TRUE, ThirdOfTwo64, NatOf(1), NatOf(1500000))}

GridArgs ==
  {Args(s, a, b, t, r, f) : s \in Slippages, a \in GridAmounts, b \in BOOLEAN,
                            t \in GridReserves, r \in GridReserves, f \in FeeRates}

QuoteArgs == GridArgs \cup ScenarioArgs

\* a call of either quote function with arguments x
Invoke(fn, x) ==
  IF fn = "CalcMinAmountOutByAmm"
  THEN CalcMinAmountOutByAmm(x.slippageBP, x.amountIn, x.isBuy, x.tokenAmount, x.baseAmount,
                             x.feeRate)
  ELSE CalculateMinAmountOut(x.slippageBP, x.amountIn, x.isBuy, x.tokenAmount, x.baseAmount,
                             x.feeRate)

NoReturn ==
  [panicked |-> FALSE, err |-> FALSE, minAmountOut |-> <<>>, exactAmountOut |-> <<>>,
   fee |-> Zero, amountInNet |-> Zero, amountOut |-> Zero, minOut |-> Zero]

\* no workflow is running
IdleSwap == [workflow |-> "none", step |-> "done"]

\* no analyzer is running
IdleDecode == [analyzer |-> "none", step |-> "done"]

\* no decoder command is running
IdleCommand == [command |-> "none", step |-> "exit"]

\* no balance reader is called
IdleBalances == [reader |-> "none", step |-> "return"]

InitQuote ==
  /\ call \in {[fn |-> fn, args |-> x] : fn \in QuoteFunctions, x \in QuoteArgs}
  /\ pc = "call"
  /\ ret = NoReturn
  /\ swap = IdleSwap
  /\ decode = IdleDecode
  /\ cmd = IdleCommand
  /\ bal = IdleBalances
  /\ tokenCache = [m \in {} |-> 0]

\* the swap command's quote
CallCalcMinAmountOutByAmm ==
  /\ pc = "call"
  /\ call.fn = "CalcMinAmountOutByAmm"
  /\ ret' = Invoke("CalcMinAmountOutByAmm", call.args)
  /\ pc' = "return"
  /\ UNCHANGED <<call, swap, decode, cmd, bal, tokenCache>>

\* the swapper package's quote
CallCalculateMinAmountOut ==
  /\ pc = "call"
  /\ call.fn = "CalculateMinAmountOut"
  /\ ret' = Invoke("CalculateMinAmountOut", call.args)
  /\ pc' = "return"
  /\ UNCHANGED <<call, swap, decode, cmd, bal, tokenCache>>

NextQuote == CallCalcMinAmountOutByAmm \/ CallCalculateMinAmountOut

SpecQuote == InitQuote /\ [][NextQuote]_vars

(***************************************************************************)
(* Swap workflow runs.                                                     *)
(***************************************************************************)
\* bound of the pool reserves an RPC response carries, in thousands
MaxPoolReserve == 1

PoolReserves == {NatOf(1000 * n) : n \in 0..MaxPoolReserve} \cup {NatOf(5000000)}

RpcAccounts == {NilAccount, BadAccount} \cup {TokenAccount(r) : r \in PoolReserves}

RpcResponses ==
  {[err |-> TRUE, Value |-> <<>>]}
    \cup {[err |-> FALSE, Value |-> <<x, y>>] : x \in RpcAccounts, y \in RpcAccounts}

\* amountInStr: unparsable, "0.000000001" or "0.0001"
AmountStrings ==
  {[valid |-> FALSE, d |-> Zero],
   [valid |-> TRUE, d |-> New(MkInt(FALSE, <<1>>), -9)],
   [valid |-> TRUE, d |-> New(MkInt(FALSE, <<1>>), -4)]}

SwapSlippages == {NatOf(100), NatOf(10000)}

SwapInputs ==
  {[workflow |-> w, keyValid |-> k, poolComplete |-> c, ProtocolFeeRecipient |-> p,
    amountInStr |-> a, slippage |-> s, isBuy |-> b] :
     w \in {"executePumpSwap", "ExecutePumpSwap"}, k \in BOOLEAN, c \in BOOLEAN,
     p \in {MainFeeRecipient, "11111111111111111111111111111111"},
     a \in AmountStrings, s \in SwapSlippages, b \in BOOLEAN}

\* the state of a run that has just been called with input x
StartSwap(x) ==
  [workflow |-> x.workflow, step |-> "setup", in |-> x, instructions |-> <<>>,
   closeIx |-> FALSE, amountInLamports |-> <<>>, reserves |-> <<>>, fetched |-> FALSE,
   fetchErr |-> FALSE, indexed |-> FALSE, quoted |-> FALSE, minAmountOut |-> <<>>,
   exactAmountOut |-> <<>>, tx |-> <<>>, result |-> "running"]

\* invalid keys, pools and recipients are tried with one amount and slippage
InitSwap ==
  /\ \E x \in SwapInputs :
       /\ \/ x.keyValid /\ x.poolComplete /\ x.ProtocolFeeRecipient = MainFeeRecipient
          \/ x.amountInStr.d.exp = -4 /\ x.slippage = NatOf(100)
       /\ swap = StartSwap(x)
  /\ call = [fn |-> "CalcMinAmountOutByAmm",
             args |-> Args(<<>>, <<>>, TRUE, <<>>, <<>>, <<>>)]
  /\ pc = "return"
  /\ ret = NoReturn
  /\ decode = IdleDecode
  /\ cmd = IdleCommand
  /\ bal = IdleBalances
  /\ tokenCache = [m \in {} |-> 0]

\* a return of the workflow: executePumpSwap's deferred function appends the
\* close instruction to its instruction list
Return(s, result) ==
  [s EXCEPT !.step = "done", !.result = result,
            !.instructions = IF s.workflow = "executePumpSwap" /\ s.closeIx
                             THEN Append(s.instructions, [kind |-> "CloseAccount"])
                             ELSE s.instructions]

\* the instructions before the swap instruction, given whether the user's
\* output and input token accounts exist
SetupInstructions(x, outExists, inExists) ==
  <<[kind |-> "SetComputeUnitPrice"], [kind |-> "SetComputeUnitLimit"]>>
    \o (IF outExists THEN <<>> ELSE <<[kind |-> "CreateATA", mint |-> "out"]>>)
    \o (IF ~x.isBuy THEN <<>>
        ELSE (IF inExists THEN <<>> ELSE <<[kind |-> "CreateATA", mint |-> "in"]>>)
             \o <<[kind |-> "Transfer", lamports |-> AmountInUnits(x.amountInStr.d, 9)],
                  [kind |-> "SyncNative"]>>)

\* both workflows up to the reserve fetch: key, token accounts, compute
\* budget, wrapping of SOL for a buy, the amount in base units
Setup ==
  /\ swap.step = "setup"
  /\ \E outExists \in BOOLEAN, inExists \in BOOLEAN :
       LET x == swap.in
       IN  swap' =
             IF x.workflow = "ExecutePumpSwap" /\ ~x.poolComplete THEN Return(swap, "error")
             ELSE IF ~x.keyValid THEN Return(swap, "error")
             ELSE IF ~x.amountInStr.valid
             THEN Return([swap EXCEPT !.instructions =
                                        SubSeq(SetupInstructions(x, outExists, inExists), 1,
                                               IF outExists THEN 2 ELSE 3)],
                         "error")
             ELSE [swap EXCEPT !.step = "fetch",
                               !.instructions = SetupInstructions(x, outExists, inExists),
                               !.closeIx = x.isBuy,
                               !.amountInLamports =
                                 AmountInUnits(x.amountInStr.d, IF x.isBuy THEN 9 ELSE 6)]
  /\ UNCHANGED <<call, pc, ret, decode, cmd, bal, tokenCache>>

\* executePumpSwap: the error of the fetch is overwritten unread
MainFetchReserves ==
  /\ swap.workflow = "executePumpSwap" /\ swap.step = "fetch"
  /\ \E res \in RpcResponses :
       swap' = [swap EXCEPT !.step = "quote", !.fetched = TRUE,
                            !.reserves = GetMulTokenBalance(res).amounts,
                            !.fetchErr = GetMulTokenBalance(res).err]
  /\ UNCHANGED <<call, pc, ret, decode, cmd, bal, tokenCache>>

\* executePumpSwap: amounts[0] and amounts[1] are read without a length check
MainQuote ==
  /\ swap.workflow = "executePumpSwap" /\ swap.step = "quote"
  /\ swap' =
       IF Len(swap.reserves) < 2
       THEN Return([swap EXCEPT !.indexed = TRUE], "panic")
       ELSE Let(CalcMinAmountOutByAmm(NatOf(InSlippage), AmtUint64, swap.in.isBuy,
                                      swap.reserves[1], swap.reserves[2], NatOf(PumpFeeRate)),
                LAMBDA q :
              IF q.panicked THEN Return([swap EXCEPT !.indexed = TRUE], "panic")
              ELSE IF q.err THEN Return([swap EXCEPT !.indexed = TRUE, !.quoted = TRUE], "error")
              ELSE [swap EXCEPT !.step = "instruction", !.indexed = TRUE, !.quoted = TRUE,
                                !.minAmountOut = q.minAmountOut,
                                !.exactAmountOut = q.exactAmountOut])
  /\ UNCHANGED <<call, pc, ret, decode, cmd, bal, tokenCache>>

\* executePumpSwap: the error of NewSwapInstruction is dropped
MainSwapInstruction ==
  /\ swap.workflow = "executePumpSwap" /\ swap.step = "instruction"
  /\ swap' = [swap EXCEPT !.step = "send",
                          !.instructions =
                            Append(swap.instructions,
                                   NewSwapInstruction(
                                     [TokenAmount1 |-> swap.minAmountOut,
                                      TokenAmount2 |-> AmtUint64,
                                      Direction |-> "BuyDirection",
                                      ProtocolFeeRecipient |-> MainFeeRecipient]).instruction)]
  /\ UNCHANGED <<call, pc, ret, decode, cmd, bal, tokenCache>>

\* ExecutePumpSwap: the fetch and its two checks
SwapperFetchReserves ==
  /\ swap.workflow = "ExecutePumpSwap" /\ swap.step = "fetch"
  /\ \E res \in RpcResponses :
       LET r == GetMulTokenBalance(res)
           s == [swap EXCEPT !.fetched = TRUE, !.reserves = r.amounts, !.fetchErr = r.err]
       IN  swap' = IF r.err THEN Return(s, "error")
                   ELSE IF Len(r.amounts) < 2 THEN Return(s, "error")
                   ELSE [s EXCEPT !.step = "quote"]
  /\ UNCHANGED <<call, pc, ret, decode, cmd, bal, tokenCache>>

SwapperQuote ==
  /\ swap.workflow = "ExecutePumpSwap" /\ swap.step = "quote"
  /\ swap' =
       Let(CalculateMinAmountOut(Uint32(swap.in.slippage), swap.amountInLamports,
                                 swap.in.isBuy, swap.reserves[1], swap.reserves[2],
                                 NatOf(PumpFeeRate)),
           LAMBDA q :
         IF q.panicked THEN Return([swap EXCEPT !.indexed = TRUE], "panic")
         ELSE IF q.err THEN Return([swap EXCEPT !.indexed = TRUE, !.quoted = TRUE], "error")
         ELSE [swap EXCEPT !.step = "instruction", !.indexed = TRUE, !.quoted = TRUE,
                           !.minAmountOut = q.minAmountOut,
                           !.exactAmountOut = q.exactAmountOut])
  /\ UNCHANGED <<call, pc, ret, decode, cmd, bal, tokenCache>>

\* createPumpSwapInstruction drops the error of NewSwapInstruction and
\* returns a nil error, then the close instruction of a buy follows the swap
SwapperSwapInstruction ==
  /\ swap.workflow = "ExecutePumpSwap" /\ swap.step = "instruction"
  /\ LET ix == NewSwapInstruction([TokenAmount1 |-> swap.minAmountOut,
                                   TokenAmount2 |-> swap.amountInLamports,
                                   Direction |-> "BuyDirection",
                                   ProtocolFeeRecipient |-> swap.in.ProtocolFeeRecipient]).instruction
     IN  swap' = [swap EXCEPT !.step = "send",
                              !.instructions =
                                Append(swap.instructions, ix)
                                  \o (IF swap.in.isBuy /\ swap.closeIx
                                      THEN <<[kind |-> "CloseAccount"]>> ELSE <<>>)]
  /\ UNCHANGED <<call, pc, ret, decode, cmd, bal, tokenCache>>

\* both workflows: blockhash, NewTransaction (which dereferences every
\* instruction), signature and submission
SendTransaction ==
  /\ swap.step = "send"
  /\ \E blockhashOk \in BOOLEAN, sendOk \in BOOLEAN :
       swap' =
         IF ~blockhashOk THEN Return(swap, "error")
         ELSE IF \E i \in 1..Len(swap.instructions) : swap.instructions[i] = NilInstruction
         THEN Return(swap, "panic")
         ELSE Return([swap EXCEPT !.tx = swap.instructions],
                     IF sendOk THEN "sent" ELSE "error")
  /\ UNCHANGED <<call, pc, ret, decode, cmd, bal, tokenCache>>

NextSwap ==
  \/ Setup
  \/ MainFetchReserves
  \/ MainQuote
  \/ MainSwapInstruction
  \/ SwapperFetchReserves
  \/ SwapperQuote
  \/ SwapperSwapInstruction
  \/ SendTransaction

SpecSwap == InitSwap /\ [][NextSwap]_vars

(***************************************************************************)
(* Calls of NewSwapInstruction and ValidateProtocolFeeRecipient with       *)
(* every direction, listed and unlisted recipients and a few amounts.      *)
(***************************************************************************)
InitInstruction ==
  /\ call \in {[fn |-> fn,
                args |-> [TokenAmount1 |-> a, TokenAmount2 |-> b, Direction |-> d,
                          ProtocolFeeRecipient |-> p]] :
                 fn \in {"NewSwapInstruction", "ValidateProtocolFeeRecipient"},
                 a \in GridAmounts, b \in GridAmounts,
                 d \in {"BuyDirection", "SellDirection", "SwapDirection(2)"},
                 p \in ProtocolFeeRecipients
                         \cup {"11111111111111111111111111111111",
                               "GS4CU59F31iL7aR2Q8zVS8DRrcRnXX1yjQ66TqNVQnaR",
                               "ADyA8hdefvWN2dbGGWFotbzWxrAvLW83WG6QCVXvJKqw"}}
  /\ pc = "call"
  /\ ret = [instruction |-> NilInstruction, err |-> FALSE]
  /\ swap = IdleSwap
  /\ decode = IdleDecode
  /\ cmd = IdleCommand
  /\ bal = IdleBalances
  /\ tokenCache = [m \in {} |-> 0]

CallNewSwapInstruction ==
  /\ pc = "call"
  /\ call.fn = "NewSwapInstruction"
  /\ ret' = NewSwapInstruction(call.args)
  /\ pc' = "return"
  /\ UNCHANGED <<call, swap, decode, cmd, bal, tokenCache>>

CallValidateProtocolFeeRecipient ==
  /\ pc = "call"
  /\ call.fn = "ValidateProtocolFeeRecipient"
  /\ ret' = [instruction |-> NilInstruction,
             err |-> ~ValidateProtocolFeeRecipient(call.args.ProtocolFeeRecipient)]
  /\ pc' = "return"
  /\ UNCHANGED <<call, swap, decode, cmd, bal, tokenCache>>

SpecInstruction ==
  InitInstruction /\ [][CallNewSwapInstruction \/ CallValidateProtocolFeeRecipient]_vars

(***************************************************************************)
(* Byte strings: sequences of numbers in 0..255.                           *)
(***************************************************************************)
\* the value of a natural below 10^8
NatToInt(v) == Limb(v, 1) + 10000 * Limb(v, 2)

\* 2^(8 * i) for i in 0..7
Pow256(i) ==
  <<<<1>>, <<256>>, <<5536, 6>>, <<7216, 1677>>, Two32, <<7776, 1162, 995, 1>>,
    <<656, 7671, 4749, 281>>, <<7936, 3792, 5940, 2057, 7>>>>[i + 1]

\* byte(val >> (i * 8))
ByteAt(val, i) == NatToInt(NatQuoRem(NatQuoRem(val, Pow256(i)).q, <<256>>).r)

\* encodeU64: the 8 bytes of val, least significant first
encodeU64(val) == SubSeq([i \in 1..8 |-> ByteAt(val, i - 1)], 1, 8)

\* the 8 bytes of b read most significant first
BigEndianUint64(b) ==
  NatAdd(NatAdd(NatAdd(NatMulSmall(Pow256(0), b[8]), NatMulSmall(Pow256(1), b[7])),
                NatAdd(NatMulSmall(Pow256(2), b[6]), NatMulSmall(Pow256(3), b[5]))),
         NatAdd(NatAdd(NatMulSmall(Pow256(4), b[4]), NatMulSmall(Pow256(5), b[3])),
                NatAdd(NatMulSmall(Pow256(6), b[2]), NatMulSmall(Pow256(7), b[1]))))

\* binary.LittleEndian.Uint64: b[0] | b[1]<<8 | ... | b[7]<<56
LittleEndianUint64(b) ==
  NatAdd(NatAdd(NatAdd(NatMulSmall(Pow256(0), b[1]), NatMulSmall(Pow256(1), b[2])),
                NatAdd(NatMulSmall(Pow256(2), b[3]), NatMulSmall(Pow256(3), b[4]))),
         NatAdd(NatAdd(NatMulSmall(Pow256(4), b[5]), NatMulSmall(Pow256(5), b[6])),
                NatAdd(NatMulSmall(Pow256(6), b[7]), NatMulSmall(Pow256(7), b[8]))))

\* the characters 1-9, A-Z without I and O, a-z without l
Base58Alphabet ==
  <<49, 50, 51, 52, 53, 54, 55, 56, 57, 65, 66, 67, 68, 69, 70, 71, 72, 74, 75, 76, 77, 78,
    80, 81, 82, 83, 84, 85, 86, 87, 88, 89, 90, 97, 98, 99, 100, 101, 102, 103, 104, 105,
    106, 107, 109, 110, 111, 112, 113, 114, 115, 116, 117, 118, 119, 120, 121, 122>>

Base58Digit(c) == (CHOOSE k \in 1..58 : Base58Alphabet[k] = c) - 1

\* the number the first n characters of str denote
RECURSIVE Base58Value(_, _)
Base58Value(str, n) ==
  IF n = 0 THEN <<>>
  ELSE Let(Base58Value(str, n - 1), LAMBDA t :
         IF t = <<>> THEN NatOf(Base58Digit(str[n]))
         ELSE NatAdd(NatMulSmall(t, 58), NatOf(Base58Digit(str[n]))))

\* the bytes of v, most significant first
RECURSIVE NatBytes(_)
NatBytes(v) ==
  IF v = <<>> THEN <<>>
  ELSE Let(NatQuoRem(v, <<256>>), LAMBDA d : NatBytes(d.q) \o <<NatToInt(d.r)>>)

\* the number of leading '1' characters
Base58Zeros(str) ==
  Let({i \in 1..Len(str) : str[i] # 49}, LAMBDA rest :
    IF rest = {} THEN Len(str)
    ELSE (CHOOSE m \in rest : \A j \in rest : m <= j) - 1)

\* base58.Decode of the string with the bytes str: an error for the empty
\* string and for a character outside the alphabet, else a zero byte per
\* leading '1' and the bytes of the number the string denotes
Base58Decode(str) ==
  IF Len(str) = 0 \/ \E i \in 1..Len(str) : \A k \in 1..58 : Base58Alphabet[k] # str[i]
  THEN [bytes |-> <<>>, err |-> TRUE]
  ELSE [bytes |-> SubSeq([i \in 1..Base58Zeros(str) |-> 0], 1, Base58Zeros(str))
                    \o NatBytes(Base58Value(str, Len(str))),
        err |-> FALSE]

(***************************************************************************)
(* The transaction analyzers of the decoder.                               *)
(***************************************************************************)
pumpSwapProgramID == "pAMMBay6oceH9fJKBRHGP5D4bD4sWpmSwMn52FMfXEA"

BuyDiscriminator == <<102, 6, 61, 18, 1, 218, 235, 234>>
SellDiscriminator == <<143, 244, 89, 80, 224, 16, 16, 88>>
CreatePoolDiscriminator == <<175, 175, 109, 31, 13, 152, 155, 9>>

\* instDataBytes: nil for empty data, the base58 decoding of the data when it
\* decodes, else the data itself
InstDataBytes(Data) ==
  IF Len(Data) = 0 THEN <<>>
  ELSE Let(Base58Decode(Data), LAMBDA r : IF r.err THEN Data ELSE r.bytes)

\* currentDiscriminator, nil for fewer than 8 bytes
CurrentDiscriminator(b) == IF Len(b) >= 8 THEN SubSeq(b, 1, 8) ELSE <<>>

\* the comparison with parameters read from 16 bytes on
ClassifyShortParameters(s, b) ==
  IF Len(b) < 8 THEN s
  ELSE IF CurrentDiscriminator(b) = BuyDiscriminator
  THEN [s EXCEPT !.isSwapInstruction = TRUE, !.isBuy = TRUE,
                 !.summary.Operation = "Swap",
                 !.summary.Direction = "Buy (SOL -> Token)",
                 !.summary.AmountOut =
                   IF Len(b) >= 16 THEN LittleEndianUint64(SubSeq(b, 9, 16)) ELSE @]
  ELSE IF CurrentDiscriminator(b) = SellDiscriminator
  THEN [s EXCEPT !.isSwapInstruction = TRUE, !.isSell = TRUE,
                 !.summary.Operation = "Swap",
                 !.summary.Direction = "Sell (Token -> SOL)",
                 !.summary.AmountIn =
                   IF Len(b) >= 16 THEN LittleEndianUint64(SubSeq(b, 9, 16)) ELSE @]
  ELSE IF CurrentDiscriminator(b) = CreatePoolDiscriminator
  THEN [s EXCEPT !.summary.Operation = "CreatePool"]
  ELSE s

\* the flags and the summary after the discriminator of b has been compared
Classify(s, b) ==
  IF Len(b) < 8 THEN s
  ELSE IF CurrentDiscriminator(b) = BuyDiscriminator
  THEN [s EXCEPT !.isSwapInstruction = TRUE, !.isBuy = TRUE,
                 !.summary.Operation = "Swap",
                 !.summary.Direction = "Buy (SOL -> Token)",
                 !.summary.AmountOut =
                   IF Len(b) >= 24 THEN LittleEndianUint64(SubSeq(b, 9, 16)) ELSE @,
                 !.summary.AmountIn =
                   IF Len(b) >= 24 THEN LittleEndianUint64(SubSeq(b, 17, 24)) ELSE @]
  ELSE IF CurrentDiscriminator(b) = SellDiscriminator
  THEN [s EXCEPT !.isSwapInstruction = TRUE, !.isSell = TRUE,
                 !.summary.Operation = "Swap",
                 !.summary.Direction = "Sell (Token -> SOL)",
                 !.summary.AmountIn =
                   IF Len(b) >= 24 THEN LittleEndianUint64(SubSeq(b, 9, 16)) ELSE @,
                 !.summary.AmountOut =
                   IF Len(b) >= 24 THEN LittleEndianUint64(SubSeq(b, 17, 24)) ELSE @]
  ELSE IF CurrentDiscriminator(b) = CreatePoolDiscriminator
  THEN [s EXCEPT !.summary.Operation = "CreatePool"]
  ELSE s

\* the instruction type without the CreatePool comparison
InstructionTypeBuySell(b) ==
  IF CurrentDiscriminator(b) = BuyDiscriminator THEN "Buy"
  ELSE IF CurrentDiscriminator(b) = SellDiscriminator THEN "Sell"
  ELSE "Unknown"

\* the instruction type with the discriminator compared as a prefix
InstructionTypeByPrefix(b) ==
  IF CurrentDiscriminator(b) = SubSeq(BuyDiscriminator, 1, Len(CurrentDiscriminator(b)))
  THEN "Buy"
  ELSE IF CurrentDiscriminator(b) = SellDiscriminator THEN "Sell"
  ELSE IF CurrentDiscriminator(b) = CreatePoolDiscriminator THEN "CreatePool"
  ELSE "Unknown"

\* instructionType, printed before the accounts
InstructionType(b) ==
  IF CurrentDiscriminator(b) = BuyDiscriminator THEN "Buy"
  ELSE IF CurrentDiscriminator(b) = SellDiscriminator THEN "Sell"
  ELSE IF CurrentDiscriminator(b) = CreatePoolDiscriminator THEN "CreatePool"
  ELSE "Unknown"

\* the accounts loop: the account in the role "Base Mint (Token)", the
\* fourth, becomes the summary's base mint, and analyzeTransactionWithRPC
\* looks up its token info once
AccountRoles(s, inst, tokenInfo) ==
  IF Len(inst.Accounts) >= 4 /\ inst.Accounts[4] < Len(s.tx.AccountKeys)
  THEN [s EXCEPT !.summary.BaseMint = s.tx.AccountKeys[inst.Accounts[4] + 1],
                 !.summary.TokenInfo =
                   @ \/ (s.analyzer = "analyzeTransactionWithRPC" /\ tokenInfo)]
  ELSE s

\* one iteration of the loop without the comparison of the program ID
AnalyzeInstructionOfAnyProgram(s, tokenInfo) ==
  Let(s.tx.Instructions[s.i + 1], LAMBDA inst :
  Let([s EXCEPT !.i = @ + 1,
                !.step = IF s.i + 1 = Len(s.tx.Instructions) THEN "summary" ELSE "loop"],
      LAMBDA t :
    IF inst.ProgramIDIndex >= Len(s.tx.AccountKeys) THEN t
    ELSE Let(InstDataBytes(inst.Data), LAMBDA b :
           AccountRoles(Classify([t EXCEPT !.isPumpSwap = TRUE,
                                           !.instructionType = InstructionType(b)], b),
                        inst, tokenInfo))))

\* one iteration of the loop that leaves the loop at an instruction of
\* another program
AnalyzeInstructionUntilForeign(s, tokenInfo) ==
  Let(s.tx.Instructions[s.i + 1], LAMBDA inst :
  Let([s EXCEPT !.i = @ + 1,
                !.step = IF s.i + 1 = Len(s.tx.Instructions) THEN "summary" ELSE "loop"],
      LAMBDA t :
    IF inst.ProgramIDIndex >= Len(s.tx.AccountKeys) THEN [t EXCEPT !.step = "summary"]
    ELSE IF s.tx.AccountKeys[inst.ProgramIDIndex + 1] # pumpSwapProgramID
    THEN [t EXCEPT !.step = "summary"]
    ELSE Let(InstDataBytes(inst.Data), LAMBDA b :
           AccountRoles(Classify([t EXCEPT !.isPumpSwap = TRUE,
                                           !.instructionType = InstructionType(b)], b),
                        inst, tokenInfo))))

\* one iteration of the loop over decodedTx.Message.Instructions
AnalyzeInstruction(s, tokenInfo) ==
  Let(s.tx.Instructions[s.i + 1], LAMBDA inst :
  Let([s EXCEPT !.i = @ + 1,
                !.step = IF s.i + 1 = Len(s.tx.Instructions) THEN "summary" ELSE "loop"],
      LAMBDA t :
    IF inst.ProgramIDIndex >= Len(s.tx.AccountKeys) THEN t
    ELSE IF s.tx.AccountKeys[inst.ProgramIDIndex + 1] # pumpSwapProgramID THEN t
    ELSE Let(InstDataBytes(inst.Data), LAMBDA b :
           AccountRoles(Classify([t EXCEPT !.isPumpSwap = TRUE,
                                           !.instructionType = InstructionType(b)], b),
                        inst, tokenInfo))))

\* bound of the number of instructions of a transaction
MaxInstructions == 2

SystemProgramID == "11111111111111111111111111111111"
TokenMint == "So11111111111111111111111111111111111111112"

AccountKeys == <<pumpSwapProgramID, SystemProgramID, TokenMint>>

\* 0, 1, 0x0102030405060708 and 2^64 - 1
U64Values == {<<>>, <<1>>, <<2856, 9038, 8597, 2623, 7>>, <<1615, 955, 737, 6744, 1844>>}

Payload(discriminator, x, y) == discriminator \o encodeU64(x) \o encodeU64(y)

\* "J4mKiQqJzCZ", the Buy discriminator in base58
Base58BuyDiscriminator == <<74, 52, 109, 75, 105, 81, 113, 74, 122, 67, 90>>

InstructionData ==
  {Payload(d, x, y) : d \in {BuyDiscriminator, SellDiscriminator, CreatePoolDiscriminator},
                      x \in U64Values, y \in U64Values}
    \cup {<<>>, <<102, 6, 61, 18, 1, 218, 235>>, BuyDiscriminator, SellDiscriminator,
          SubSeq(Payload(BuyDiscriminator, <<1>>, <<2>>), 1, 23),
          SubSeq(Payload(SellDiscriminator, <<1>>, <<2>>), 1, 23),
          Payload(BuyDiscriminator, <<1>>, <<2>>) \o <<7>>,
          Payload(<<0, 0, 0, 0, 0, 0, 0, 0>>, <<1>>, <<2>>),
          Base58BuyDiscriminator, <<49, 49>>}

Instruction(p, a, d) == [ProgramIDIndex |-> p, Accounts |-> a, Data |-> d]

\* the first instruction of a transaction
FirstInstructions ==
  {Instruction(0, a, d) : a \in {<<>>, <<1, 1, 0, 2>>, <<1, 1, 0, 3>>}, d \in InstructionData}
    \cup {Instruction(p, <<1, 1, 0, 2>>, Payload(BuyDiscriminator, <<1>>, <<2>>)) : p \in {1, 3}}

\* the instructions after the first
NextInstructions ==
  {Instruction(0, <<>>, Payload(BuyDiscriminator, <<3>>, <<4>>)),
   Instruction(0, <<>>, Payload(SellDiscriminator, <<5>>, <<6>>)),
   Instruction(0, <<>>, CreatePoolDiscriminator),
   Instruction(0, <<1, 1, 0, 1>>, <<1, 2, 3>>),
   Instruction(0, <<>>, SubSeq(Payload(SellDiscriminator, <<5>>, <<6>>), 1, 23)),
   Instruction(1, <<>>, Payload(SellDiscriminator, <<5>>, <<6>>))}

Transaction(present, meta, transaction, binary, unmarshalOk, instructions) ==
  [present |-> present, Meta |-> meta, Transaction |-> transaction, binary |-> binary,
   unmarshalOk |-> unmarshalOk, AccountKeys |-> AccountKeys, Instructions |-> instructions]

InstructionLists ==
  {<<>>} \cup {<<a>> \o t : a \in FirstInstructions,
                            t \in UNION {[1..k -> NextInstructions] :
                                           k \in 0..(MaxInstructions - 1)}}

\* decodable transactions, and one that is nil, without metadata, without
\* transaction data, without binary data, or not decodable
Transactions ==
  {Transaction(TRUE, TRUE, TRUE, TRUE, TRUE, l) : l \in InstructionLists}
    \cup {Transaction(p, m, t, b, u,
                      <<Instruction(0, <<>>, Payload(BuyDiscriminator, <<1>>, <<2>>))>>) :
            p \in BOOLEAN, m \in BOOLEAN, t \in BOOLEAN, b \in BOOLEAN, u \in BOOLEAN}

NoReport == [summary |-> "", operation |-> "", direction |-> ""]

\* the state of an analyzer that has just been called with tx
StartDecode(analyzer, tx) ==
  [analyzer |-> analyzer, tx |-> tx, step |-> "start", i |-> 0,
   isPumpSwap |-> FALSE, isSwapInstruction |-> FALSE, isBuy |-> FALSE, isSell |-> FALSE,
   summary |-> [Operation |-> "Unknown", Direction |-> "Unknown", BaseMint |-> "Unknown",
                AmountIn |-> <<>>, AmountOut |-> <<>>, TokenInfo |-> FALSE],
   instructionType |-> "none", report |-> NoReport]

InitDecode ==
  /\ decode \in {StartDecode(a, tx) :
                   a \in {"analyzeTransaction", "analyzeTransactionWithRPC"},
                   tx \in Transactions}
  /\ call = [fn |-> "CalcMinAmountOutByAmm",
             args |-> Args(<<>>, <<>>, TRUE, <<>>, <<>>, <<>>)]
  /\ pc = "return"
  /\ ret = NoReturn
  /\ swap = IdleSwap
  /\ cmd = IdleCommand
  /\ bal = IdleBalances
  /\ tokenCache = [m \in {} |-> 0]

\* both analyzers up to the loop: a nil transaction returns, one without
\* metadata is reported as such, one without decodable data goes to the
\* summary
StartAnalysis ==
  /\ decode.step = "start"
  /\ decode' =
       IF ~decode.tx.present THEN [decode EXCEPT !.step = "done"]
       ELSE IF ~decode.tx.Meta
       THEN [decode EXCEPT !.step = "done",
                           !.report.summary = "No transaction metadata available"]
       ELSE IF ~decode.tx.Transaction \/ ~decode.tx.binary \/ ~decode.tx.unmarshalOk
       THEN [decode EXCEPT !.step = "summary"]
       ELSE IF Len(decode.tx.Instructions) = 0 THEN [decode EXCEPT !.step = "summary"]
       ELSE [decode EXCEPT !.step = "loop"]
  /\ UNCHANGED <<call, pc, ret, swap, cmd, bal, tokenCache>>

AnalyzeTransactionInstruction ==
  /\ decode.analyzer = "analyzeTransaction" /\ decode.step = "loop"
  /\ decode' = AnalyzeInstruction(decode, FALSE)
  /\ UNCHANGED <<call, pc, ret, swap, cmd, bal, tokenCache>>

\* a token info that getTokenInfo has looked up is cached under its mint
AnalyzeTransactionWithRPCInstruction ==
  /\ decode.analyzer = "analyzeTransactionWithRPC" /\ decode.step = "loop"
  /\ \E tokenInfo \in BOOLEAN : decode' = AnalyzeInstruction(decode, tokenInfo)
  /\ tokenCache' =
       IF decode'.summary.TokenInfo /\ ~decode.summary.TokenInfo
       THEN [m \in DOMAIN tokenCache \cup {decode'.summary.BaseMint} |->
               IF m = decode'.summary.BaseMint
               THEN [Decimals |-> 6, Name |-> <<>>, Symbol |-> <<>>, Description |-> ""]
               ELSE tokenCache[m]]
       ELSE tokenCache
  /\ UNCHANGED <<call, pc, ret, swap, cmd, bal>>

\* both analyzers after the loop: the closing lines and the summary box
PrintSummary ==
  /\ decode.step = "summary"
  /\ decode' =
       [decode EXCEPT
          !.step = "done",
          !.report =
            [summary |-> IF decode.isPumpSwap THEN "This is a PumpSwap transaction"
                         ELSE "Not a PumpSwap transaction",
             operation |-> IF ~decode.isPumpSwap THEN ""
                           ELSE IF decode.isSwapInstruction THEN "Swap"
                           ELSE "Other PumpSwap operation (not a swap)",
             direction |-> IF ~decode.isPumpSwap \/ ~decode.isSwapInstruction THEN ""
                           ELSE IF decode.isBuy THEN "Buy (SOL -> Token)"
                           ELSE IF decode.isSell THEN "Sell (Token -> SOL)"
                           ELSE "Unknown"]]
  /\ UNCHANGED <<call, pc, ret, swap, cmd, bal, tokenCache>>

NextDecode ==
  \/ StartAnalysis
  \/ AnalyzeTransactionInstruction
  \/ AnalyzeTransactionWithRPCInstruction
  \/ PrintSummary

SpecDecode == InitDecode /\ [][NextDecode]_vars

(***************************************************************************)
(* The token cache: a sequence of getTokenInfo calls.  call is the latest  *)
(* call, ret what it returned and the number of RPC and HTTP requests it   *)
(* made; w is what the RPC node and the metadata URI answer.               *)
(***************************************************************************)
getTokenInfoRefreshing(cache, mintAddress, w) ==
  IF mintAddress = "invalid_address_format" \/ w.mint # "decoded"
  THEN [info |-> <<>>, err |-> TRUE, requests |-> 1, cache |-> cache]
  ELSE [info |-> [Decimals |-> w.Decimals, Name |-> <<>>, Symbol |-> <<>>,
                  Description |-> ""],
        err |-> FALSE, requests |-> 1,
        cache |-> [m \in DOMAIN cache \cup {mintAddress} |->
                     IF m = mintAddress
                     THEN [Decimals |-> w.Decimals, Name |-> <<>>, Symbol |-> <<>>,
                           Description |-> ""]
                     ELSE cache[m]]]

\* getTokenInfo: the cached info, or the decimals of the mint account with
\* the trimmed name and symbol of the metadata account and the description
\* behind its URI as far as they can be fetched and decoded
getTokenInfo(cache, mintAddress, w) ==
  LET TrimSpace(s) ==
        IF \A i \in 1..Len(s) : s[i] = " " THEN <<>>
        ELSE SubSeq(s, CHOOSE i \in 1..Len(s) : s[i] # " " /\ \A j \in 1..(i - 1) : s[j] = " ",
                    CHOOSE i \in 1..Len(s) :
                      s[i] # " " /\ \A j \in (i + 1)..Len(s) : s[j] = " ")
      basic == [Decimals |-> w.Decimals, Name |-> <<>>, Symbol |-> <<>>, Description |-> ""]
      named == [Decimals |-> w.Decimals,
                Name |-> TrimSpace(IF w.Name = <<>> /\ w.Uri /\ w.uri = "decoded"
                                   THEN <<"E", "x", "t">> ELSE w.Name),
                Symbol |-> TrimSpace(<<" ", "S", "Y", "M", " ">>),
                Description |-> IF w.Uri /\ w.uri = "decoded" THEN "extended" ELSE ""]
      Found(info, requests) ==
        [info |-> info, err |-> FALSE, requests |-> requests,
         cache |-> [m \in DOMAIN cache \cup {mintAddress} |->
                      IF m = mintAddress THEN info ELSE cache[m]]]
      Failed(requests) == [info |-> <<>>, err |-> TRUE, requests |-> requests, cache |-> cache]
  IN  IF mintAddress \in DOMAIN cache
      THEN [info |-> cache[mintAddress], err |-> FALSE, requests |-> 0, cache |-> cache]
      ELSE IF mintAddress = "invalid_address_format" THEN Failed(0)
      ELSE IF w.mint # "decoded" THEN Failed(1)
      ELSE IF ~w.pda THEN Found(basic, 1)
      ELSE IF w.metadata \in {"error", "nil"} THEN Found(basic, 2)
      ELSE IF w.metadata # "decoded" THEN Found(basic, 2)
      ELSE Found(named, IF w.Uri THEN 3 ELSE 2)

InitTokenCache ==
  /\ call = [fn |-> "getTokenInfo", args |-> [mintAddress |-> ""]]
  /\ pc = "call"
  /\ ret = [info |-> <<>>, err |-> FALSE, requests |-> 0]
  /\ tokenCache = [m \in {} |-> 0]
  /\ swap = IdleSwap
  /\ decode = IdleDecode
  /\ cmd = IdleCommand
  /\ bal = IdleBalances

\* one call, for a mint and the answers it gets
CallGetTokenInfo ==
  /\ call.fn = "getTokenInfo"
  /\ \E mintAddress \in {TokenMint, "4vDmqnKLN2jdPGR2DMf5L6C93AG4XbHdfRAXJuironK8",
                         "invalid_address_format"},
        mint \in {"error", "empty", "undecodable", "decoded"},
        Decimals \in {6, 9}, pda \in BOOLEAN,
        metadata \in {"error", "nil", "empty", "undecodable", "decoded"},
        Name \in {<<>>, <<"P", "u", "m", "p", " ">>}, Uri \in BOOLEAN,
        uri \in {"error", "decoded"} :
       LET r == getTokenInfo(tokenCache, mintAddress,
                             [mint |-> mint, Decimals |-> Decimals, pda |-> pda,
                              metadata |-> metadata, Name |-> Name, Uri |-> Uri,
                              uri |-> uri])
       IN  /\ call' = [fn |-> "getTokenInfo", args |-> [mintAddress |-> mintAddress]]
           /\ ret' = [info |-> r.info, err |-> r.err, requests |-> r.requests]
           /\ tokenCache' = r.cache
  /\ pc' = "return"
  /\ UNCHANGED <<swap, decode, cmd, bal>>

SpecTokenCache == InitTokenCache /\ [][CallGetTokenInfo]_vars

(***************************************************************************)
(* The decoder's commands.  decode-tx and decode call their function       *)
(* (decodeSpecificTransaction, getHistoricalTransactions) with the primary *)
(* endpoint and then with the fallback endpoints; each call makes its RPC  *)
(* requests in a retry loop.  cmd.tried lists the calls that returned,     *)
(* cmd.requests the requests of the latest call with their attempts.       *)
(***************************************************************************)
fallbackRPCEndpoints ==
  <<"https://api.mainnet-beta.solana.com", "https://solana-api.projectserum.com",
    "https://rpc.ankr.com/solana", "https://solana-mainnet.g.alchemy.com/v2/demo",
    "https://mainnet.rpcpool.com">>

maxRetries == 3

\* the number of signatures decode processes
limit == 10

\* bound on the signatures an RPC node returns
MaxSignatures == 2

StartCommand(command, rpcEndpoint, valid) ==
  [command |-> command, rpcEndpoint |-> rpcEndpoint, valid |-> valid, step |-> "call",
   endpoint |-> rpcEndpoint, index |-> 0, tried |-> <<>>, requests |-> <<>>,
   retryCount |-> 0, signatures |-> 0, analysed |-> <<>>, result |-> "running"]

NextFallbackAny(rpcEndpoint, i) ==
  IF i > Len(fallbackRPCEndpoints) THEN 0 ELSE i

\* the fallback loop from position i on: the position of the first endpoint
\* that is not the primary one, 0 when the list is exhausted
NextFallback(rpcEndpoint, i) ==
  LET later == {j \in i..Len(fallbackRPCEndpoints) : fallbackRPCEndpoints[j] # rpcEndpoint}
  IN  IF later = {} THEN 0 ELSE CHOOSE j \in later : \A k \in later : j <= k

\* the called function returns: the command ends after a success and after
\* the last endpoint, and calls the next fallback endpoint otherwise
Returned(c, ok) ==
  LET t == Append(c.tried, [endpoint |-> c.endpoint, ok |-> ok])
      j == NextFallback(c.rpcEndpoint, c.index + 1)
  IN  IF ok THEN [c EXCEPT !.tried = t, !.step = "exit", !.result = "ok"]
      ELSE IF j = 0 THEN [c EXCEPT !.tried = t, !.step = "exit", !.result = "failed"]
      ELSE [c EXCEPT !.tried = t, !.step = "call", !.index = j,
                     !.endpoint = fallbackRPCEndpoints[j]]

\* the transaction loop of getHistoricalTransactions at signature sig
NextSignature(c, sig) ==
  IF sig > c.signatures THEN Returned(c, TRUE)
  ELSE [c EXCEPT !.requests = Append(@, [request |-> "GetTransaction", sig |-> sig,
                                          attempts |-> <<>>, failed |-> FALSE]),
                 !.retryCount = 0]

\* after the retry loop of a request: its error is reported; a transaction
\* that was fetched is analysed, n signatures that were fetched are cut to
\* the limit and processed one by one
AfterRequest(c, ok, n) ==
  LET request == c.requests[Len(c.requests)]
      reported == [c EXCEPT !.requests[Len(c.requests)].failed = ~ok]
  IN  IF c.command = "decode-tx"
      THEN Returned(IF ok THEN [reported EXCEPT !.analysed = <<0>>] ELSE reported, ok)
      ELSE IF request.request = "GetSignaturesForAddress"
      THEN IF ~ok THEN Returned(reported, FALSE)
           ELSE NextSignature([reported EXCEPT !.signatures = IF n > limit THEN limit ELSE n],
                              1)
      ELSE NextSignature(IF ok THEN [reported EXCEPT !.analysed = Append(@, request.sig)]
                         ELSE reported,
                         request.sig + 1)

AttemptSleepingAfterLast(c, ok, n) ==
  LET logged == [c EXCEPT !.requests[Len(c.requests)].attempts =
                            Append(@, [ok |-> ok,
                                       wait |-> IF ok THEN 0 ELSE c.retryCount + 1])]
  IN  IF ~ok /\ c.retryCount < maxRetries - 1
      THEN [logged EXCEPT !.retryCount = c.retryCount + 1]
      ELSE AfterRequest(logged, ok, n)

\* one iteration of a retry loop: the request is sent, a success leaves the
\* loop, a failure sleeps retryCount + 1 seconds unless it was the last
\* attempt
Attempt(c, ok, n) ==
  LET wait == IF ~ok /\ c.retryCount < maxRetries - 1 THEN c.retryCount + 1 ELSE 0
      logged == [c EXCEPT !.requests[Len(c.requests)].attempts =
                            Append(@, [ok |-> ok, wait |-> wait])]
  IN  IF ~ok /\ c.retryCount < maxRetries - 1
      THEN [logged EXCEPT !.retryCount = c.retryCount + 1]
      ELSE AfterRequest(logged, ok, n)

\* RPC_ENDPOINT is unset, a custom endpoint or one of the public endpoints
InitCommand ==
  /\ cmd \in {StartCommand(c, e, v) :
                c \in {"decode-tx", "decode"},
                e \in {fallbackRPCEndpoints[1], fallbackRPCEndpoints[2],
                       fallbackRPCEndpoints[5], "https://your-custom-endpoint.com"},
                v \in BOOLEAN}
  /\ call = [fn |-> "CalcMinAmountOutByAmm",
             args |-> Args(<<>>, <<>>, TRUE, <<>>, <<>>, <<>>)]
  /\ pc = "return"
  /\ ret = NoReturn
  /\ swap = IdleSwap
  /\ decode = IdleDecode
  /\ bal = IdleBalances
  /\ tokenCache = [m \in {} |-> 0]

\* the function is called with cmd.endpoint: a signature or address that
\* does not parse returns an error, otherwise the first request starts
CallEndpoint ==
  /\ cmd.step = "call"
  /\ cmd' =
       IF ~cmd.valid THEN Returned([cmd EXCEPT !.requests = <<>>], FALSE)
       ELSE [cmd EXCEPT
               !.step = "request",
               !.requests = <<[request |-> IF cmd.command = "decode-tx" THEN "GetTransaction"
                                           ELSE "GetSignaturesForAddress",
                               sig |-> 0, attempts |-> <<>>, failed |-> FALSE]>>,
               !.retryCount = 0, !.signatures = 0, !.analysed = <<>>]
  /\ UNCHANGED <<call, pc, ret, swap, decode, bal, tokenCache>>

\* one attempt of the current request, which succeeds or fails
RpcAttempt ==
  /\ cmd.step = "request"
  /\ \E ok \in BOOLEAN, n \in 0..MaxSignatures : cmd' = Attempt(cmd, ok, n)
  /\ UNCHANGED <<call, pc, ret, swap, decode, bal, tokenCache>>

\* decode's signal handler: an interrupt exits with status 0
Interrupt ==
  /\ cmd.command = "decode" /\ cmd.step # "exit"
  /\ cmd' = [cmd EXCEPT !.step = "exit", !.result = "interrupted"]
  /\ UNCHANGED <<call, pc, ret, swap, decode, bal, tokenCache>>

NextCommand == CallEndpoint \/ RpcAttempt \/ Interrupt

SpecCommand == InitCommand /\ [][NextCommand]_vars

(***************************************************************************)
(* The batch balance readers: utils.GetMulTokenBalance asks for one        *)
(* account after the other, GetMulTokenBalance of the swap command and     *)
(* GetMultipleTokenBalances of the swapper ask for all accounts at once.   *)
(* bal.queried lists the requests for single accounts.                     *)
(***************************************************************************)
\* bound on the accounts of a call
MaxAccounts == 3

ParseUintLeftToRight(s) ==
  IF Len(s) = 0 \/ \E i \in 1..Len(s) : s[i] \notin {"0", "1", "2", "3", "4", "5", "6", "7", "8", "9"}
  THEN [value |-> <<>>, err |-> TRUE]
  ELSE [value |-> NatNorm([k \in 1..((Len(s) + 3) \div 4) |->
                    LET digit(i) ==
                          IF i > Len(s) THEN 0
                          ELSE CHOOSE d \in 0..9 :
                                 <<"0", "1", "2", "3", "4", "5", "6", "7", "8", "9">>[d + 1] = s[i]
                    IN  digit(4 * k - 3) + 10 * digit(4 * k - 2) + 100 * digit(4 * k - 1)
                          + 1000 * digit(4 * k)]),
        err |-> FALSE]

\* strconv.ParseUint(s, 10, 64) of the characters s: the value of a
\* non-empty string of decimal digits that is below 2^64
ParseUint(s) ==
  IF Len(s) = 0 \/ \E i \in 1..Len(s) : s[i] \notin {"0", "1", "2", "3", "4", "5", "6", "7", "8", "9"}
  THEN [value |-> <<>>, err |-> TRUE]
  ELSE Let(NatNorm([k \in 1..((Len(s) + 3) \div 4) |->
             LET digit(i) ==
                   IF i > Len(s) THEN 0
                   ELSE CHOOSE d \in 0..9 :
                          <<"0", "1", "2", "3", "4", "5", "6", "7", "8", "9">>[d + 1]
                            = s[Len(s) + 1 - i]
             IN  digit(4 * k - 3) + 10 * digit(4 * k - 2) + 100 * digit(4 * k - 1)
                   + 1000 * digit(4 * k)]),
           LAMBDA v : IF NatCmp(v, Two64) >= 0 THEN [value |-> <<>>, err |-> TRUE]
                      ELSE [value |-> v, err |-> FALSE])

\* what the RPC node holds for an account and the amount text it reports:
\* no account, token accounts holding 1000, 0 and 2^64 - 1, data that is no
\* token account, and token accounts reported with a text that is no number
\* or no 64-bit number
BalanceAccounts ==
  {[present |-> FALSE, decodes |-> FALSE, Amount |-> <<>>, text |-> <<>>],
   [present |-> TRUE, decodes |-> TRUE, Amount |-> NatOf(1000), text |-> <<"1", "0", "0", "0">>],
   [present |-> TRUE, decodes |-> TRUE, Amount |-> <<>>, text |-> <<"0">>],
   [present |-> TRUE, decodes |-> TRUE, Amount |-> <<1615, 955, 737, 6744, 1844>>,
    text |-> <<"1", "8", "4", "4", "6", "7", "4", "4", "0", "7", "3", "7", "0", "9", "5", "5",
               "1", "6", "1", "5">>],
   [present |-> TRUE, decodes |-> FALSE, Amount |-> <<>>, text |-> <<>>],
   [present |-> TRUE, decodes |-> TRUE, Amount |-> NatOf(1000), text |-> <<"1", "e", "3">>],
   [present |-> TRUE, decodes |-> TRUE, Amount |-> NatOf(1000),
    text |-> <<"1", "8", "4", "4", "6", "7", "4", "4", "0", "7", "3", "7", "0", "9", "5", "5",
               "1", "6", "1", "6">>]}

InitBalances ==
  /\ \E n \in 0..MaxAccounts :
       bal \in {[reader |-> r, accounts |-> a, step |-> "call", i |-> 0, queried |-> <<>>,
                 rpcErr |-> FALSE, balances |-> <<>>, isNil |-> TRUE, err |-> FALSE] :
                  r \in {"utils.GetMulTokenBalance", "GetMulTokenBalance",
                         "GetMultipleTokenBalances"},
                  a \in [1..n -> BalanceAccounts]}
  /\ call = [fn |-> "CalcMinAmountOutByAmm",
             args |-> Args(<<>>, <<>>, TRUE, <<>>, <<>>, <<>>)]
  /\ pc = "return"
  /\ ret = NoReturn
  /\ swap = IdleSwap
  /\ decode = IdleDecode
  /\ cmd = IdleCommand
  /\ tokenCache = [m \in {} |-> 0]

\* utils.GetMulTokenBalance up to its loop: no accounts are an error,
\* otherwise balances has one zero for each account
UtilsGetMulTokenBalance ==
  /\ bal.reader = "utils.GetMulTokenBalance" /\ bal.step = "call"
  /\ bal' = IF Len(bal.accounts) = 0 THEN [bal EXCEPT !.step = "return", !.err = TRUE]
            ELSE [bal EXCEPT !.step = "fetch", !.i = 1,
                             !.balances = [i \in 1..Len(bal.accounts) |-> <<>>]]
  /\ UNCHANGED <<call, pc, ret, swap, decode, cmd, tokenCache>>

\* one iteration of its loop: the balance of account i is requested and
\* parsed; an error returns nil
GetTokenAccountBalance ==
  /\ bal.reader = "utils.GetMulTokenBalance" /\ bal.step = "fetch"
  /\ \E failed \in BOOLEAN :
       LET account == bal.accounts[bal.i]
           fetchErr == failed \/ ~account.present \/ ~account.decodes
           asked == [bal EXCEPT !.queried = Append(@, [account |-> bal.i, err |-> fetchErr])]
       IN  bal' =
             IF fetchErr \/ ParseUint(account.text).err
             THEN [asked EXCEPT !.step = "return", !.err = TRUE, !.balances = <<>>]
             ELSE [asked EXCEPT
                     !.balances[bal.i] = ParseUint(account.text).value,
                     !.i = bal.i + 1,
                     !.isNil = bal.i < Len(bal.accounts),
                     !.step = IF bal.i < Len(bal.accounts) THEN "fetch" ELSE "return"]
  /\ UNCHANGED <<call, pc, ret, swap, decode, cmd, tokenCache>>

\* GetMulTokenBalance of the swap command
CallGetMulTokenBalance ==
  /\ bal.reader = "GetMulTokenBalance" /\ bal.step = "call"
  /\ \E failed \in BOOLEAN :
       LET r == GetMulTokenBalance([err |-> failed,
                                    Value |-> IF failed THEN <<>> ELSE bal.accounts])
       IN  bal' = [bal EXCEPT !.step = "return", !.rpcErr = failed, !.balances = r.amounts,
                              !.isNil = r.amounts = <<>>, !.err = r.err]
  /\ UNCHANGED <<call, pc, ret, swap, decode, cmd, tokenCache>>

\* GetMultipleTokenBalances of the swapper, which returns an empty slice for
\* no accounts without a request
CallGetMultipleTokenBalances ==
  /\ bal.reader = "GetMultipleTokenBalances" /\ bal.step = "call"
  /\ \E failed \in BOOLEAN :
       LET r == GetMulTokenBalance([err |-> failed,
                                    Value |-> IF failed THEN <<>> ELSE bal.accounts])
       IN  bal' = IF Len(bal.accounts) = 0
                  THEN [bal EXCEPT !.step = "return", !.isNil = FALSE]
                  ELSE [bal EXCEPT !.step = "return", !.rpcErr = failed,
                                   !.balances = r.amounts, !.isNil = r.amounts = <<>>,
                                   !.err = r.err]
  /\ UNCHANGED <<call, pc, ret, swap, decode, cmd, tokenCache>>

NextBalances ==
  \/ UtilsGetMulTokenBalance
  \/ GetTokenAccountBalance
  \/ CallGetMulTokenBalance
  \/ CallGetMultipleTokenBalances

SpecBalances == InitBalances /\ [][NextBalances]_vars

(***************************************************************************)
(* Properties of the quote.                                                *)
(***************************************************************************)

\* C1: whenever inputReserve + amountInNet > 0, a quote that returns has
\* fee = amountIn * feeRate / 1,000,000 and amountInNet = amountIn - fee, and
\* when exactAmountOut = outputReserve - inputReserve * outputReserve /
\* (inputReserve + amountInNet) and minAmountOut = exactAmountOut *
\* (10000 - slippage) / 10000 are both positive it returns their integer
\* parts, the formula being taken in exact arithmetic:
\* exactAmountOut = num / den with num = outputReserve * amountIn *
\* (10^6 - feeRate) and den = inputReserve * 10^6 + amountIn * (10^6 - feeRate).
C1_QuoteIsExactFormula ==
  (pc = "return" /\ ~ret.panicked) =>
    LET x    == call.args
        I    == MkInt(FALSE, IF x.isBuy THEN x.baseAmount ELSE x.tokenAmount)
        O    == MkInt(FALSE, IF x.isBuy THEN x.tokenAmount ELSE x.baseAmount)
        a    == MkInt(FALSE, x.amountIn)
        keep == IntSub(MkInt(FALSE, NatOf(1000000)), MkInt(FALSE, x.feeRate))
        num  == IntMul(IntMul(O, a), keep)
        den  == IntAdd(IntMul(I, MkInt(FALSE, NatOf(1000000))), IntMul(a, keep))
        bp   == IntSub(MkInt(FALSE, NatOf(10000)), MkInt(FALSE, x.slippageBP))
    IN  IntSign(den) = 1 =>
          /\ Cmp(Mul(ret.fee, NewFromUint64(NatOf(1000000))),
                 Mul(NewFromUint64(x.amountIn), NewFromUint64(x.feeRate))) = 0
          /\ Cmp(Add(ret.amountInNet, ret.fee), NewFromUint64(x.amountIn)) = 0
          /\ (IntSign(num) = 1 /\ IntSign(bp) = 1) =>
               /\ ret.exactAmountOut = IntQuoRem(num, den).q.mag
               /\ ret.minAmountOut =
                    IntQuoRem(IntMul(num, bp), IntMul(den, MkInt(FALSE, NatOf(10000)))).q.mag

\* C2 (as amended): for inputReserve 1,000,000, outputReserve 5,000,000,
\* amountIn 100,000, feeRate 2500 and slippage 100 the quote computes fee 250
\* and amountInNet 99,750 and returns exactAmountOut 453,512 and
\* minAmountOut 448,977.
C2_ScenarioArgs ==
  /\ call.args.slippageBP = NatOf(100)
  /\ call.args.amountIn = NatOf(100000)
  /\ call.args.feeRate = NatOf(2500)
  /\ (IF call.args.isBuy THEN call.args.baseAmount ELSE call.args.tokenAmount) = NatOf(1000000)
  /\ (IF call.args.isBuy THEN call.args.tokenAmount ELSE call.args.baseAmount) = NatOf(5000000)

C2_ScenarioFeeAndNet ==
  /\ ~ret.panicked
  /\ ~ret.err
  /\ Cmp(ret.fee, NewFromUint64(NatOf(250))) = 0
  /\ Cmp(ret.amountInNet, NewFromUint64(NatOf(99750))) = 0

C2_ConcreteScenario ==
  (pc = "return" /\ C2_ScenarioArgs) =>
    /\ C2_ScenarioFeeAndNet
    /\ ret.exactAmountOut = NatOf(453512)
    /\ ret.minAmountOut = NatOf(448977)

C2_ScenarioReturned ==
  pc = "return" /\ C2_ScenarioArgs /\ ret.exactAmountOut = NatOf(453512)

\* C2 as the specification states it: exactAmountOut 453,740 and
\* minAmountOut 449,202.
C2_ConcreteScenarioAsStated ==
  (pc = "return" /\ C2_ScenarioArgs) =>
    /\ C2_ScenarioFeeAndNet
    /\ ret.exactAmountOut = NatOf(453740)
    /\ ret.minAmountOut = NatOf(449202)

\* C3: for a successful quote with feeRate 0 and positive reserves and
\* amountIn, 0 <= (inputReserve + amountIn) * (outputReserve - exactAmountOut)
\* - inputReserve * outputReserve < inputReserve + amountIn.
C3_ProductConservation ==
  (/\ pc = "return" /\ ~ret.panicked /\ ~ret.err
   /\ IsPositive(ret.amountOut) /\ IsPositive(ret.minOut)
   /\ call.args.feeRate = <<>>
   /\ call.args.amountIn # <<>> /\ call.args.tokenAmount # <<>> /\ call.args.baseAmount # <<>>) =>
    LET x    == call.args
        I    == MkInt(FALSE, IF x.isBuy THEN x.baseAmount ELSE x.tokenAmount)
        O    == MkInt(FALSE, IF x.isBuy THEN x.tokenAmount ELSE x.baseAmount)
        newI == IntAdd(I, MkInt(FALSE, x.amountIn))
        diff == IntSub(IntMul(newI, IntSub(O, MkInt(FALSE, ret.exactAmountOut))), IntMul(I, O))
    IN  IntSign(diff) >= 0 /\ IntCmp(diff, newI) < 0

\* C5: when the computed exactAmountOut or minAmountOut is not positive, in
\* particular for every slippage of 10000 basis points or more, the quote
\* returns (0, 0): CalcMinAmountOutByAmm with a nil error,
\* CalculateMinAmountOut with a non-nil error.
C5_NonPositiveReturnsZero ==
  (/\ pc = "return" /\ ~ret.panicked
   /\ \/ Sign(ret.amountOut) <= 0
      \/ Sign(ret.minOut) <= 0
      \/ NatCmp(call.args.slippageBP, NatOf(10000)) >= 0) =>
    /\ ret.minAmountOut = <<>>
    /\ ret.exactAmountOut = <<>>
    /\ ret.err = (call.fn = "CalculateMinAmountOut")

C5_ZeroedPositiveOutput ==
  /\ pc = "return" /\ ~ret.panicked
  /\ call.fn = "CalculateMinAmountOut"
  /\ call.args.slippageBP = NatOf(10000)
  /\ Sign(ret.amountOut) = 1 /\ Sign(ret.minOut) = 0
  /\ ret.err /\ ret.exactAmountOut = <<>>

\* C7: the quote for Buy with reserves (tokenAmount, baseAmount) = (A, B)
\* equals the quote for Sell with reserves (B, A), and for Buy the output
\* before slippage is that of the pool with input reserve baseAmount and
\* output reserve tokenAmount.
C7_DirectionIsRelabeling ==
  pc = "return" =>
    LET x == call.args
    IN  /\ ret = Invoke(call.fn, Args(x.slippageBP, x.amountIn, ~x.isBuy, x.baseAmount,
                                      x.tokenAmount, x.feeRate))
        /\ x.isBuy =>
             LET core == CalcMinAmountOutBySwap(x.slippageBP, x.amountIn, x.baseAmount,
                                                x.tokenAmount, x.feeRate)
             IN  /\ ret.panicked = core.panicked
                 /\ ret.amountOut = core.amountOut

C7_BuyOfUnequalReserves ==
  /\ pc = "return" /\ call.args.isBuy
  /\ call.args.tokenAmount = NatOf(2000) /\ call.args.baseAmount = NatOf(1000)
  /\ ret.exactAmountOut # <<>>

\* C8: for fixed reserves, amountIn and slippage and feeRate <= feeRate2 the
\* exactAmountOut returned for feeRate2 is at most the one returned for
\* feeRate.
C8_FeeMonotonicity ==
  (pc = "return" /\ ~ret.panicked) =>
    \A f2 \in FeeRates :
      NatCmp(call.args.feeRate, f2) <= 0 =>
        LET x  == call.args
            r2 == Invoke(call.fn, Args(x.slippageBP, x.amountIn, x.isBuy, x.tokenAmount,
                                       x.baseAmount, f2))
        IN  ~r2.panicked => NatCmp(r2.exactAmountOut, ret.exactAmountOut) <= 0

\* C9: for fixed reserves, amountIn and feeRate and slippage <= slippage2 the
\* minAmountOut returned for slippage2 is at most the one returned for
\* slippage, and with slippage 0 the returned minAmountOut equals the
\* returned exactAmountOut.
C9_SlippageMonotonicity ==
  (pc = "return" /\ ~ret.panicked) =>
    /\ call.args.slippageBP = <<>> => ret.minAmountOut = ret.exactAmountOut
    /\ \A s2 \in Slippages :
         NatCmp(call.args.slippageBP, s2) <= 0 =>
           LET x  == call.args
               r2 == Invoke(call.fn, Args(s2, x.amountIn, x.isBuy, x.tokenAmount,
                                          x.baseAmount, x.feeRate))
           IN  ~r2.panicked => NatCmp(r2.minAmountOut, ret.minAmountOut) <= 0

(***************************************************************************)
(* Properties of the swap workflows.                                       *)
(***************************************************************************)

\* C4: in both swap workflows no swap instruction is built with a
\* minimum-output amount of 0: whenever the quote's exact or minimum output
\* is not at least 1 the workflow ends with an error and has created no swap
\* instruction.
C4_NoZeroMinimumOutput ==
  swap.workflow # "none" =>
    /\ \A i \in 1..Len(swap.instructions) :
         /\ swap.instructions[i].kind = "Buy" => swap.instructions[i].BaseAmountOut # <<>>
         /\ swap.instructions[i].kind = "Sell" => swap.instructions[i].MinQuoteAmountOut # <<>>
    /\ (/\ swap.quoted /\ swap.result # "panic"
        /\ swap.minAmountOut = <<>> \/ swap.exactAmountOut = <<>>) =>
         /\ swap.result = "error"
         /\ \A i \in 1..Len(swap.instructions) :
              swap.instructions[i].kind \notin {"Buy", "Sell", "nil"}

\* C6: when the reserve fetch fails or returns fewer than 2 values, the
\* workflow indexes no reserve, computes no quote and sends no transaction,
\* and it returns an error.
C6_NoQuoteWithoutReserves ==
  (/\ swap.workflow # "none" /\ swap.fetched
   /\ swap.fetchErr \/ Len(swap.reserves) < 2) =>
    /\ ~swap.indexed
    /\ ~swap.quoted
    /\ swap.tx = <<>>
    /\ swap.step = "done" => swap.result = "error"

(***************************************************************************)
(* Properties of the transaction analyzers.                                *)
(***************************************************************************)

\* the payloads of the claim, for X and Y in U64Values
C10_Payloads ==
  {[X |-> X, Y |-> Y,
    buy |-> BuyDiscriminator \o encodeU64(X) \o encodeU64(Y),
    sell |-> SellDiscriminator \o encodeU64(X) \o encodeU64(Y)] :
     X \in U64Values, Y \in U64Values}

C10_IsPumpSwapInstruction(inst) ==
  /\ inst.ProgramIDIndex < Len(decode.tx.AccountKeys)
  /\ decode.tx.AccountKeys[inst.ProgramIDIndex + 1] = pumpSwapProgramID

\* C10: once an analyzer has examined a PumpSwap instruction whose data is
\* the Buy discriminator followed by the little-endian encodings of X and Y,
\* the instruction is classified as Buy and the summary has AmountOut = X
\* and AmountIn = Y; with the Sell discriminator it is classified as Sell
\* and the summary has AmountIn = X and AmountOut = Y.
C10_ClassifierRoundTrip ==
  (decode.analyzer # "none" /\ decode.i > 0) =>
    LET inst == decode.tx.Instructions[decode.i]
    IN  C10_IsPumpSwapInstruction(inst) =>
          \A p \in C10_Payloads :
            /\ inst.Data = p.buy =>
                 /\ decode.isPumpSwap /\ decode.isSwapInstruction /\ decode.isBuy
                 /\ decode.instructionType = "Buy"
                 /\ decode.summary.Operation = "Swap"
                 /\ decode.summary.Direction = "Buy (SOL -> Token)"
                 /\ decode.summary.AmountOut = p.X
                 /\ decode.summary.AmountIn = p.Y
            /\ inst.Data = p.sell =>
                 /\ decode.isPumpSwap /\ decode.isSwapInstruction /\ decode.isSell
                 /\ decode.instructionType = "Sell"
                 /\ decode.summary.Operation = "Swap"
                 /\ decode.summary.Direction = "Sell (Token -> SOL)"
                 /\ decode.summary.AmountIn = p.X
                 /\ decode.summary.AmountOut = p.Y

C10_SellAfterBuyDecoded ==
  /\ decode.analyzer = "analyzeTransactionWithRPC" /\ decode.i = 2
  /\ decode.tx.Instructions[1].Data =
       <<102, 6, 61, 18, 1, 218, 235, 234, 255, 255, 255, 255, 255, 255, 255, 255,
         8, 7, 6, 5, 4, 3, 2, 1>>
  /\ decode.tx.Instructions[2].Data =
       <<143, 244, 89, 80, 224, 16, 16, 88, 5, 0, 0, 0, 0, 0, 0, 0, 6, 0, 0, 0, 0, 0, 0, 0>>
  /\ C10_IsPumpSwapInstruction(decode.tx.Instructions[2])
  /\ decode.isBuy /\ decode.isSell
  /\ decode.summary.AmountIn = <<5>> /\ decode.summary.AmountOut = <<6>>

\* the instruction the next iteration of the loop examines, and its payload
\* (instDataBytes)
C11_ExaminedInstruction == decode.tx.Instructions[decode.i + 1]

C11_ExaminedPayload == InstDataBytes(C11_ExaminedInstruction.Data)

\* an iteration of the loop that examines an instruction of the PumpSwap
\* program
C11_ExaminesPumpSwapInstruction ==
  /\ decode.step = "loop" /\ decode'.i = decode.i + 1
  /\ C10_IsPumpSwapInstruction(C11_ExaminedInstruction)

\* the kind of a payload of at least 8 bytes by its first 8 bytes
C11_Kind(b) ==
  IF SubSeq(b, 1, 8) = <<102, 6, 61, 18, 1, 218, 235, 234>> THEN "Buy"
  ELSE IF SubSeq(b, 1, 8) = <<143, 244, 89, 80, 224, 16, 16, 88>> THEN "Sell"
  ELSE IF SubSeq(b, 1, 8) = <<175, 175, 109, 31, 13, 152, 155, 9>> THEN "CreatePool"
  ELSE "Unknown"

\* C11: an iteration that examines a PumpSwap instruction with a payload of
\* at least 8 bytes classifies it as Buy, Sell, CreatePool or Unknown by its
\* first 8 bytes: the instruction type is that kind, the buy flag is set iff
\* it is Buy, the sell flag iff it is Sell, the swap flag iff it is either,
\* CreatePool is recorded as the operation, and an Unknown instruction sets
\* no flag and changes neither the amounts nor the operation or direction;
\* the three registry entries are pairwise distinct.
C11_ExactlyOneKind ==
  [][(C11_ExaminesPumpSwapInstruction /\ Len(C11_ExaminedPayload) >= 8) =>
       /\ decode'.isPumpSwap
       /\ decode'.instructionType = C11_Kind(C11_ExaminedPayload)
       /\ decode'.isBuy = (decode.isBuy \/ C11_Kind(C11_ExaminedPayload) = "Buy")
       /\ decode'.isSell = (decode.isSell \/ C11_Kind(C11_ExaminedPayload) = "Sell")
       /\ decode'.isSwapInstruction =
            (decode.isSwapInstruction \/ C11_Kind(C11_ExaminedPayload) \in {"Buy", "Sell"})
       /\ C11_Kind(C11_ExaminedPayload) \in {"Buy", "Sell"} => decode'.summary.Operation = "Swap"
       /\ C11_Kind(C11_ExaminedPayload) = "CreatePool" =>
            decode'.summary.Operation = "CreatePool"
       /\ C11_Kind(C11_ExaminedPayload) \in {"CreatePool", "Unknown"} =>
            /\ decode'.summary.AmountIn = decode.summary.AmountIn
            /\ decode'.summary.AmountOut = decode.summary.AmountOut
            /\ decode'.summary.Direction = decode.summary.Direction
       /\ C11_Kind(C11_ExaminedPayload) = "Unknown" =>
            decode'.summary.Operation = decode.summary.Operation
       /\ BuyDiscriminator # SellDiscriminator
       /\ BuyDiscriminator # CreatePoolDiscriminator
       /\ SellDiscriminator # CreatePoolDiscriminator]_vars

\* an instruction of eight zero bytes and two parameters has been examined
\* and found Unknown
C11_UnknownExamined ==
  /\ decode.analyzer = "analyzeTransaction" /\ decode.i = 1
  /\ C10_IsPumpSwapInstruction(decode.tx.Instructions[1])
  /\ decode.tx.Instructions[1].Data =
       <<0, 0, 0, 0, 0, 0, 0, 0, 1, 0, 0, 0, 0, 0, 0, 0, 2, 0, 0, 0, 0, 0, 0, 0>>
  /\ decode.isPumpSwap /\ decode.instructionType = "Unknown"
  /\ ~decode.isSwapInstruction /\ ~decode.isBuy /\ ~decode.isSell
  /\ decode.summary.AmountIn = <<>> /\ decode.summary.AmountOut = <<>>

\* C12 as stated: an iteration that examines a PumpSwap instruction with a
\* payload shorter than 8 bytes finds the instruction type Unknown and
\* changes no swap, buy or sell flag and no summary field.
C12_TooShortChangesNothing ==
  [][(C11_ExaminesPumpSwapInstruction /\ Len(C11_ExaminedPayload) < 8) =>
       /\ decode'.instructionType = "Unknown"
       /\ decode'.isSwapInstruction = decode.isSwapInstruction
       /\ decode'.isBuy = decode.isBuy
       /\ decode'.isSell = decode.isSell
       /\ decode'.summary = decode.summary]_vars

\* C12: an iteration that examines a PumpSwap instruction with a payload
\* shorter than 8 bytes finds the instruction type Unknown, changes no swap,
\* buy or sell flag and changes no summary field other than the base mint
\* and its token info, which the account listing sets.
C12_TooShortClassifiesNothing ==
  [][(C11_ExaminesPumpSwapInstruction /\ Len(C11_ExaminedPayload) < 8) =>
       /\ decode'.instructionType = "Unknown"
       /\ decode'.isSwapInstruction = decode.isSwapInstruction
       /\ decode'.isBuy = decode.isBuy
       /\ decode'.isSell = decode.isSell
       /\ decode'.summary.Operation = decode.summary.Operation
       /\ decode'.summary.Direction = decode.summary.Direction
       /\ decode'.summary.AmountIn = decode.summary.AmountIn
       /\ decode'.summary.AmountOut = decode.summary.AmountOut]_vars

\* an instruction with an empty payload and four accounts has been examined:
\* nothing is classified and the base mint is its fourth account
C12_EmptyPayloadExamined ==
  /\ decode.analyzer = "analyzeTransaction" /\ decode.i = 1
  /\ C10_IsPumpSwapInstruction(decode.tx.Instructions[1])
  /\ decode.tx.Instructions[1].Data = <<>>
  /\ decode.tx.Instructions[1].Accounts = <<1, 1, 0, 2>>
  /\ decode.isPumpSwap /\ decode.instructionType = "Unknown"
  /\ ~decode.isSwapInstruction /\ ~decode.isBuy /\ ~decode.isSell
  /\ decode.summary.Operation = "Unknown" /\ decode.summary.Direction = "Unknown"
  /\ decode.summary.BaseMint = TokenMint

\* C13: an iteration that examines a PumpSwap instruction whose payload has
\* 8 to 23 bytes and starts with the Buy or Sell discriminator classifies it
\* as that kind, whatever the bytes from offset 8 on, and leaves the summary
\* amounts AmountIn and AmountOut unchanged.
C13_ShortPayloadNoParameters ==
  [][(/\ C11_ExaminesPumpSwapInstruction
      /\ Len(C11_ExaminedPayload) >= 8 /\ Len(C11_ExaminedPayload) < 24
      /\ C11_Kind(C11_ExaminedPayload) \in {"Buy", "Sell"}) =>
       /\ decode'.instructionType = C11_Kind(C11_ExaminedPayload)
       /\ decode'.isSwapInstruction
       /\ C11_Kind(C11_ExaminedPayload) = "Buy" =>
            /\ decode'.isBuy /\ decode'.isSell = decode.isSell
            /\ decode'.summary.Direction = "Buy (SOL -> Token)"
       /\ C11_Kind(C11_ExaminedPayload) = "Sell" =>
            /\ decode'.isSell /\ decode'.isBuy = decode.isBuy
            /\ decode'.summary.Direction = "Sell (Token -> SOL)"
       /\ decode'.summary.Operation = "Swap"
       /\ decode'.summary.AmountIn = decode.summary.AmountIn
       /\ decode'.summary.AmountOut = decode.summary.AmountOut]_vars

\* a Sell of 23 bytes has been examined after a Buy with parameters: the
\* sell flag is set and the amounts are still those of the Buy
C13_ShortSellAfterBuy ==
  /\ decode.i = 2
  /\ C10_IsPumpSwapInstruction(decode.tx.Instructions[1])
  /\ decode.tx.Instructions[1].Data =
       <<102, 6, 61, 18, 1, 218, 235, 234, 1, 0, 0, 0, 0, 0, 0, 0, 8, 7, 6, 5, 4, 3, 2, 1>>
  /\ C10_IsPumpSwapInstruction(decode.tx.Instructions[2])
  /\ decode.tx.Instructions[2].Data =
       <<143, 244, 89, 80, 224, 16, 16, 88, 5, 0, 0, 0, 0, 0, 0, 0, 6, 0, 0, 0, 0, 0, 0>>
  /\ decode.isBuy /\ decode.isSell /\ decode.instructionType = "Sell"
  /\ decode.summary.Direction = "Sell (Token -> SOL)"
  /\ decode.summary.AmountOut = <<1>>
  /\ decode.summary.AmountIn = <<2856, 9038, 8597, 2623, 7>>

\* the instructions the transaction's data holds: none without decodable data
C14_TransactionInstructions ==
  IF decode.tx.present /\ decode.tx.Transaction /\ decode.tx.binary
     /\ decode.tx.unmarshalOk
  THEN decode.tx.Instructions
  ELSE <<>>

\* an iteration of the loop that examines an instruction of another program
\* or with a program-ID index outside the account keys changes no flag and
\* no summary field
C14_ForeignInstructionIgnored ==
  (/\ decode.step = "loop" /\ decode'.i = decode.i + 1
   /\ ~C10_IsPumpSwapInstruction(C11_ExaminedInstruction)) =>
    /\ decode'.isPumpSwap = decode.isPumpSwap
    /\ decode'.isSwapInstruction = decode.isSwapInstruction
    /\ decode'.isBuy = decode.isBuy
    /\ decode'.isSell = decode.isSell
    /\ decode'.summary = decode.summary

C14_ReportedAsPumpSwap == decode'.report.summary = "This is a PumpSwap transaction"

C14_HasPumpSwapInstruction ==
  \E k \in 1..Len(C14_TransactionInstructions) :
    C10_IsPumpSwapInstruction(C14_TransactionInstructions[k])

\* C14 as stated: an instruction of another program, or with a program-ID
\* index outside the account keys, changes no flag and no summary field, and
\* when the analysis of a transaction ends the transaction has been reported
\* as a PumpSwap transaction iff one of its instructions is owned by the
\* PumpSwap program.
C14_OnlyPumpSwapClassified ==
  [][/\ C14_ForeignInstructionIgnored
     /\ (decode.step # "done" /\ decode'.step = "done") =>
          (C14_ReportedAsPumpSwap <=> C14_HasPumpSwapInstruction)]_vars

\* C14: an instruction of another program, or with a program-ID index
\* outside the account keys, changes no flag and no summary field, and when
\* the analysis of a transaction ends the transaction has been reported as a
\* PumpSwap transaction iff it has metadata and one of the instructions
\* decoded from its data is owned by the PumpSwap program.
C14_OnlyPumpSwapClassifiedWithMeta ==
  [][/\ C14_ForeignInstructionIgnored
     /\ (decode.step # "done" /\ decode'.step = "done") =>
          (C14_ReportedAsPumpSwap <=> (decode.tx.Meta /\ C14_HasPumpSwapInstruction))]_vars

\* a transaction whose only instruction is a Buy payload owned by the system
\* program has been reported as not a PumpSwap transaction
C14_ForeignBuyReported ==
  /\ decode.step = "done" /\ decode.i = 1 /\ Len(decode.tx.Instructions) = 1
  /\ decode.tx.Instructions[1].ProgramIDIndex = 1
  /\ decode.tx.Instructions[1].Data =
       <<102, 6, 61, 18, 1, 218, 235, 234, 1, 0, 0, 0, 0, 0, 0, 0, 2, 0, 0, 0, 0, 0, 0, 0>>
  /\ ~decode.isPumpSwap /\ ~decode.isSwapInstruction /\ ~decode.isBuy
  /\ decode.summary.Operation = "Unknown" /\ decode.summary.AmountIn = <<>>
  /\ decode.report.summary = "Not a PumpSwap transaction"

\* a transaction the analyzers decode: it has metadata and decodable data
C15_Decoded ==
  decode.tx.present /\ decode.tx.Meta /\ decode.tx.Transaction /\ decode.tx.binary
  /\ decode.tx.unmarshalOk

\* C15: for a decoded transaction the loop starts at the first instruction,
\* every iteration examines the next instruction in message order whatever
\* the instruction is, the loop is left only after the last instruction,
\* and the analysis ends only with the summary printed after all
\* instructions have been examined.
C15_LoopNeverAborts ==
  [][/\ (decode.step = "start" /\ decode'.step = "loop") => decode'.i = 0
     /\ decode.step = "loop" =>
          /\ decode'.i = decode.i + 1
          /\ decode'.step = IF decode'.i < Len(decode.tx.Instructions)
                            THEN "loop" ELSE "summary"
     /\ decode.step # "loop" => decode'.i = decode.i
     /\ (C15_Decoded /\ decode'.step = "summary") =>
          decode'.i = Len(decode.tx.Instructions)
     /\ (C15_Decoded /\ decode'.step = "done") =>
          /\ decode.step = "summary"
          /\ decode'.i = Len(decode.tx.Instructions)
          /\ decode'.report.summary # ""]_vars

\* the analysis of a transaction of two instructions has ended: the first
\* has a program-ID index outside the account keys, the second is a Sell,
\* and the summary reports the Sell
C15_SellAfterSkippedInstructions ==
  /\ decode.step = "done" /\ decode.i = 2 /\ Len(decode.tx.Instructions) = 2
  /\ decode.tx.Instructions[1].ProgramIDIndex = 3
  /\ C10_IsPumpSwapInstruction(decode.tx.Instructions[2])
  /\ decode.tx.Instructions[2].Data =
       <<143, 244, 89, 80, 224, 16, 16, 88, 5, 0, 0, 0, 0, 0, 0, 0, 6, 0, 0, 0, 0, 0, 0, 0>>
  /\ decode.isSell /\ decode.summary.AmountIn = <<5>>
  /\ decode.report.summary = "This is a PumpSwap transaction"
  /\ decode.report.direction = "Sell (Token -> SOL)"

(***************************************************************************)
(* Properties of the decoder's commands.                                   *)
(***************************************************************************)
\* the call of the function has returned by itself
C16_CallReturned ==
  /\ cmd.step \in {"call", "exit"} /\ cmd.result # "interrupted"
  /\ cmd.requests # <<>>

\* C16: every RPC request is attempted at most 3 times and never again after
\* a success; a failed attempt is followed by a wait of 1 s after the first
\* and 2 s after the second failure and by no wait after the third; the
\* failure of a request is reported only after three failed attempts.  In
\* history mode the transactions are requested one signature after the
\* other whatever the outcome of the earlier ones, a transaction whose fetch
\* failed is not analysed, and the call returns without an error once the
\* signatures were fetched.
C16_RetriesAndSkips ==
  /\ \A r \in 1..Len(cmd.requests) :
       LET a == cmd.requests[r].attempts
       IN  /\ Len(a) <= 3
           /\ \A j \in 1..Len(a) :
                /\ a[j].ok => j = Len(a)
                /\ a[j].wait = IF a[j].ok THEN 0 ELSE IF j = 1 THEN 1
                               ELSE IF j = 2 THEN 2 ELSE 0
           /\ cmd.requests[r].failed <=> (Len(a) = 3 /\ \A j \in 1..3 : ~a[j].ok)
           /\ (cmd.command = "decode" /\ r >= 2) =>
                /\ cmd.requests[r].request = "GetTransaction"
                /\ cmd.requests[r].sig = r - 1
  /\ (C16_CallReturned /\ cmd.command = "decode" /\ ~cmd.requests[1].failed) =>
       /\ Len(cmd.requests) = 1 + cmd.signatures
       /\ cmd.tried[Len(cmd.tried)].ok
       /\ cmd.analysed =
            SelectSeq([i \in 1..cmd.signatures |-> i],
                      LAMBDA i : ~cmd.requests[i + 1].failed)

\* a history run that skipped its first transaction after three failures
\* and analysed the second one at the second attempt
C16_SkippedThenAnalysed ==
  /\ cmd.command = "decode" /\ cmd.step = "exit" /\ cmd.result = "ok"
  /\ cmd.signatures = 2 /\ Len(cmd.requests) = 3
  /\ cmd.requests[2].failed
  /\ Len(cmd.requests[3].attempts) = 2
  /\ cmd.analysed = <<2>>

\* the fallback endpoints without the primary one
C17_Others == SelectSeq(fallbackRPCEndpoints, LAMBDA e : e # cmd.rpcEndpoint)

\* C17: the first call goes to the primary endpoint; every later call goes
\* to a fallback endpoint, after all earlier calls returned an error, in
\* list order, each endpoint at most once and never the primary one; no
\* call follows a success; a run that is not interrupted ends in failure
\* exactly when every call failed, and then every fallback endpoint other
\* than the primary one was tried.
C17_FallbackOrder ==
  /\ Len(cmd.tried) <= 1 + Len(C17_Others)
  /\ \A i \in 1..Len(cmd.tried) :
       /\ cmd.tried[i].endpoint = IF i = 1 THEN cmd.rpcEndpoint ELSE C17_Others[i - 1]
       /\ i < Len(cmd.tried) => ~cmd.tried[i].ok
  /\ (cmd.tried # <<>> /\ cmd.tried[Len(cmd.tried)].ok) => cmd.step = "exit"
  /\ (cmd.command # "none" /\ cmd.step = "exit" /\ cmd.result # "interrupted") =>
       /\ cmd.result \in {"ok", "failed"}
       /\ cmd.tried # <<>>
       /\ cmd.result = "failed" <=> \A i \in 1..Len(cmd.tried) : ~cmd.tried[i].ok
       /\ cmd.result = "failed" => Len(cmd.tried) = 1 + Len(C17_Others)

\* the primary endpoint is the second of the list; it and the first of the
\* list failed and the third succeeded
C17_ThirdEndpointSucceeded ==
  /\ cmd.command = "decode-tx" /\ cmd.step = "exit" /\ cmd.result = "ok"
  /\ cmd.rpcEndpoint = fallbackRPCEndpoints[2]
  /\ Len(cmd.tried) = 3
  /\ cmd.tried[3].endpoint = fallbackRPCEndpoints[3]


(***************************************************************************)
(* Properties of the batch balance readers.                                *)
(***************************************************************************)
\* the amount text of account i is the decimal numeral of its amount
C18_Reported(i) ==
  bal.accounts[i].text \in
    {<<"0">>, <<"1", "0", "0", "0">>,
     <<"1", "8", "4", "4", "6", "7", "4", "4", "0", "7", "3", "7", "0", "9", "5", "5",
       "1", "6", "1", "5">>}

\* C18: utils.GetMulTokenBalance asks for the accounts in input order; with
\* no accounts it returns an error; a call that returns without an error
\* returns one balance for each account, balances[i] being the amount of
\* accounts[i]; a call that returns an error returns nil, and it does so at
\* the first request that fails or whose amount does not parse, without a
\* request for a later account.
C18_BalancesInInputOrder ==
  bal.reader = "utils.GetMulTokenBalance" =>
    /\ \A j \in 1..Len(bal.queried) :
         /\ bal.queried[j].account = j
         /\ (bal.queried[j].err \/ ~C18_Reported(j)) => (j = Len(bal.queried) /\ bal.err)
    /\ bal.step = "return" =>
         /\ Len(bal.accounts) = 0 => (bal.err /\ bal.queried = <<>>)
         /\ bal.err => (bal.isNil /\ bal.balances = <<>>)
         /\ (bal.err /\ Len(bal.accounts) > 0) =>
              /\ bal.queried # <<>>
              /\ \/ bal.queried[Len(bal.queried)].err
                 \/ ~C18_Reported(Len(bal.queried))
         /\ ~bal.err =>
              /\ ~bal.isNil
              /\ Len(bal.queried) = Len(bal.accounts)
              /\ Len(bal.balances) = Len(bal.accounts)
              /\ \A i \in 1..Len(bal.accounts) : bal.balances[i] = bal.accounts[i].Amount

\* three balances were read, the first 2^64 - 1 and the last 1000
C18_ThreeBalancesRead ==
  /\ bal.reader = "utils.GetMulTokenBalance" /\ bal.step = "return" /\ ~bal.err
  /\ Len(bal.accounts) = 3
  /\ bal.balances[1] = <<1615, 955, 737, 6744, 1844>>
  /\ bal.balances[3] = NatOf(1000)

\* the number of existing accounts among the first i
C19_Existing(i) == Cardinality({j \in 1..i : bal.accounts[j].present})

\* C19: when the request of a batch reader is answered, the reader returns
\* nil and an error if an existing account does not decode; otherwise it
\* returns without an error the amounts of the existing accounts in input
\* order and nothing for an absent one, so that the result is as long as
\* the number of existing accounts.
C19_ExistingAccountsOnly ==
  (/\ bal.reader \in {"GetMulTokenBalance", "GetMultipleTokenBalances"}
   /\ bal.step = "return" /\ ~bal.rpcErr) =>
    IF \E i \in 1..Len(bal.accounts) : bal.accounts[i].present /\ ~bal.accounts[i].decodes
    THEN bal.err /\ bal.isNil /\ bal.balances = <<>>
    ELSE /\ ~bal.err
         /\ Len(bal.balances) = C19_Existing(Len(bal.accounts))
         /\ \A i \in 1..Len(bal.accounts) :
              bal.accounts[i].present =>
                bal.balances[C19_Existing(i)] = bal.accounts[i].Amount

\* the second of three accounts is absent and two amounts are returned
C19_AbsentAccountOmitted ==
  /\ bal.reader = "GetMultipleTokenBalances" /\ bal.step = "return" /\ ~bal.err
  /\ Len(bal.accounts) = 3
  /\ ~bal.accounts[2].present
  /\ bal.balances = <<NatOf(1000), <<1615, 955, 737, 6744, 1844>>>>

(***************************************************************************)
(* Properties of the swap instruction.                                     *)
(***************************************************************************)
\* the caller's amountIn in lamports: its digits shifted by nine places
C20_Lamports ==
  NatShl10(swap.in.amountInStr.d.value.mag, 9 + swap.in.amountInStr.d.exp)

C21_Position(k) ==
  IF Cardinality({i \in 1..Len(swap.tx) : swap.tx[i].kind = k}) = 1
  THEN CHOOSE i \in 1..Len(swap.tx) : swap.tx[i].kind = k
  ELSE 0

\* C21: the transaction that a swap workflow has sent for a buy starts with
\* the two compute-budget instructions, holds the SOL transfer, then the
\* sync-native instruction, then the swap instruction, and ends with the
\* close-account instruction.
C21_CloseAccountLast ==
  (swap.workflow # "none" /\ swap.in.isBuy /\ swap.result = "sent") =>
    /\ Len(swap.tx) >= 6
    /\ swap.tx[1].kind = "SetComputeUnitPrice"
    /\ swap.tx[2].kind = "SetComputeUnitLimit"
    /\ C21_Position("Transfer") > 2
    /\ C21_Position("SyncNative") = C21_Position("Transfer") + 1
    /\ C21_Position("Buy") = Len(swap.tx) - 1
    /\ C21_Position("SyncNative") < C21_Position("Buy")
    /\ C21_Position("CloseAccount") = Len(swap.tx)

\* the recipients that validProtocolFeeRecipients lists
C22_Listed ==
  {"62qc2CNXwrYqQScmEdiZFFAnJR262PxWEuNQtxfafNgV",
   "7VtfL8fvgNfhz17qKRMjzQEXgbdpnHHHQRh54R9jP2RJ",
   "7hTckgnGnLQR6sdH7YkqFTAA7VwTfYFaZ6EhEsU3saCX",
   "9rPYyANsfQZw3DnDmKE3YCQF5E8oD89UXoHn9JFEhJUz",
   "AVmoTthdrX6tKt4nDjco2D775W2YK3sDhxPcMmzUAmTY",
   "FWsW1xNtWscwNmKv6wVsU1iTzRN6wmmk3MjxRP5tT7hz",
   "G5UZAVbAf46s7cKWoyKu8kYTip9DGTpbLZ2qa9Aq69dP"}

\* C22: NewSwapInstruction returns an error and no instruction when the
\* recipient is not listed or the direction is neither Buy nor Sell, and an
\* instruction without an error otherwise; ValidateProtocolFeeRecipient
\* returns nil exactly for a listed recipient.
C22_OnlyValidInstructions ==
  pc = "return" =>
    /\ call.fn = "NewSwapInstruction" =>
         IF call.args.ProtocolFeeRecipient \notin C22_Listed
              \/ call.args.Direction \notin {"BuyDirection", "SellDirection"}
         THEN ret.err /\ ret.instruction = NilInstruction
         ELSE ~ret.err /\ ret.instruction # NilInstruction
    /\ call.fn = "ValidateProtocolFeeRecipient" =>
         (~ret.err <=> call.args.ProtocolFeeRecipient \in C22_Listed)

\* a sell with an unlisted recipient was refused
C22_UnlistedRecipientRefused ==
  /\ pc = "return" /\ call.fn = "NewSwapInstruction"
  /\ call.args.Direction = "SellDirection"
  /\ call.args.ProtocolFeeRecipient = "11111111111111111111111111111111"
  /\ ret.err /\ ret.instruction = NilInstruction

\* C24: the transaction that ExecutePumpSwap has sent holds one swap
\* instruction; for a buy it is a Buy instruction, for a sell it is a Sell
\* instruction whose BaseAmountIn is the caller's amount in token units (six
\* decimals) and whose MinQuoteAmountOut is the minAmountOut of the quote.
C24_DirectionMatches ==
  (swap.workflow = "ExecutePumpSwap" /\ swap.result = "sent") =>
    \E i \in 1..Len(swap.tx) :
      /\ \A j \in 1..Len(swap.tx) : swap.tx[j].kind \in {"Buy", "Sell", "nil"} => j = i
      /\ IF swap.in.isBuy THEN swap.tx[i].kind = "Buy"
         ELSE /\ swap.tx[i].kind = "Sell"
              /\ swap.tx[i].BaseAmountIn =
                   NatShl10(swap.in.amountInStr.d.value.mag, 6 + swap.in.amountInStr.d.exp)
              /\ swap.tx[i].MinQuoteAmountOut = swap.minAmountOut

\* C25: every call of a quote function returns a result or an error; none
\* fails with a division by zero, whatever the amount, the reserves, the
\* fee rate and the slippage are.
C25_QuoteIsTotal == pc = "return" /\ call.fn \in QuoteFunctions => ~ret.panicked

\* C26: every result of a quote function has minAmountOut <= exactAmountOut
\* and, when the input reserve is positive, exactAmountOut < outputReserve;
\* when CalculateMinAmountOut returns a nil error, both amounts are at
\* least 1.
C26_QuoteBounds ==
  (pc = "return" /\ call.fn \in QuoteFunctions /\ ~ret.panicked) =>
    LET x == call.args
        inputReserve == IF x.isBuy THEN x.baseAmount ELSE x.tokenAmount
        outputReserve == IF x.isBuy THEN x.tokenAmount ELSE x.baseAmount
    IN  /\ NatCmp(ret.minAmountOut, ret.exactAmountOut) <= 0
        /\ inputReserve # <<>> => NatCmp(ret.exactAmountOut, outputReserve) < 0
        /\ (call.fn = "CalculateMinAmountOut" /\ ~ret.err) =>
             (ret.minAmountOut # <<>> /\ ret.exactAmountOut # <<>>)

\* C28: on the same arguments CalcMinAmountOutByAmm and CalculateMinAmountOut
\* return the same (minAmountOut, exactAmountOut) pair, and
\* CalculateMinAmountOut returns an error exactly when an output was not
\* positive, with the pair (0, 0).
C28_QuotesAgree ==
  (pc = "return" /\ call.fn \in QuoteFunctions) =>
    LET byAmm == Invoke("CalcMinAmountOutByAmm", call.args)
        calculate == Invoke("CalculateMinAmountOut", call.args)
    IN  /\ byAmm.panicked = calculate.panicked
        /\ byAmm.minAmountOut = calculate.minAmountOut
        /\ byAmm.exactAmountOut = calculate.exactAmountOut
        /\ ~byAmm.err
        /\ calculate.err <=>
             /\ ~calculate.panicked
             /\ ~IsPositive(calculate.amountOut) \/ ~IsPositive(calculate.minOut)
        /\ calculate.err =>
             calculate.minAmountOut = <<>> /\ calculate.exactAmountOut = <<>>

\* the positions of the examined PumpSwap instructions whose discriminator
\* is that of Buy or Sell: each of them sets summary.Direction
C27_DirectionSetters ==
  {k \in 1..decode.i :
     /\ C10_IsPumpSwapInstruction(decode.tx.Instructions[k])
     /\ InstructionType(InstDataBytes(decode.tx.Instructions[k].Data)) \in {"Buy", "Sell"}}

\* the parameters, as (AmountIn, AmountOut), of the payload b: the second
\* and the first 8 bytes after the discriminator for Buy, the first and the
\* second for Sell, none (0, 0) below 24 bytes
C27_Parameters(b) ==
  IF Len(b) < 24 THEN <<<<>>, <<>>>>
  ELSE IF InstructionType(b) = "Buy"
  THEN <<LittleEndianUint64(SubSeq(b, 17, 24)), LittleEndianUint64(SubSeq(b, 9, 16))>>
  ELSE <<LittleEndianUint64(SubSeq(b, 9, 16)), LittleEndianUint64(SubSeq(b, 17, 24))>>

\* C27: when analyzeTransaction has printed its report, at most one of
\* isBuy and isSell is set, the direction of the closing summary is
\* summary.Direction, summary.Operation is "Swap" iff isSwapInstruction is
\* set, and summary.AmountIn and AmountOut are the parameters of the
\* instruction that set summary.Direction.
C27_ReportIsConsistent ==
  (decode.analyzer = "analyzeTransaction" /\ decode.step = "done"
     /\ decode.report.summary \in {"This is a PumpSwap transaction",
                                   "Not a PumpSwap transaction"}) =>
    /\ ~(decode.isBuy /\ decode.isSell)
    /\ decode.report.direction # "" => decode.report.direction = decode.summary.Direction
    /\ decode.summary.Operation = "Swap" <=> decode.isSwapInstruction
    /\ C27_DirectionSetters # {} =>
         LET k == CHOOSE j \in C27_DirectionSetters :
                    \A l \in C27_DirectionSetters : l <= j
             p == C27_Parameters(InstDataBytes(decode.tx.Instructions[k].Data))
         IN  decode.summary.AmountIn = p[1] /\ decode.summary.AmountOut = p[2]

(***************************************************************************)
(* Properties of the token cache.                                          *)
(***************************************************************************)
\* C23: a getTokenInfo call for a cached mint returns the cached info
\* without an error and without a request; a call that returns an info
\* leaves it in the cache under its mint; a call that returns an error
\* leaves the cache as it was; no call removes or replaces a cached info.
C23_CacheIsStable ==
  [][call'.fn = "getTokenInfo" =>
       /\ call'.args.mintAddress \in DOMAIN tokenCache =>
            /\ ~ret'.err
            /\ ret'.info = tokenCache[call'.args.mintAddress]
            /\ ret'.requests = 0
       /\ ~ret'.err =>
            /\ call'.args.mintAddress \in DOMAIN tokenCache'
            /\ tokenCache'[call'.args.mintAddress] = ret'.info
       /\ ret'.err => tokenCache' = tokenCache
       /\ \A m \in DOMAIN tokenCache :
            m \in DOMAIN tokenCache' /\ tokenCache'[m] = tokenCache[m]]_vars

\* with two mints cached, a call was answered from the cache with an info
\* that has a name
C23_AnsweredFromCache ==
  /\ call.fn = "getTokenInfo" /\ pc = "return"
  /\ Cardinality(DOMAIN tokenCache) = 2
  /\ ~ret.err /\ ret.requests = 0
  /\ ret.info.Name = <<"P", "u", "m", "p">>

====
